---- MODULE Spec2Model ----
(***************************************************************************)
(* A model of the "gather" coordination assistant:                         *)
(*   - the conversation store and window memory (src/agent/memory.py,      *)
(*     src/storage/json_storage.py)                          -- Spec       *)
(*   - a turn through the entry points, run_task and the agent loop        *)
(*     (src/main.py, src/ui.py, src/agent/coordinator.py)    -- SpecTurn   *)
(*   - the date resolver parse_date / _parse_time                          *)
(*     (src/agent/tools/calendar.py)                         -- SpecDate   *)
(* Strings are TLA+ strings; Len, SubSeq and \o act on their characters.   *)
(***************************************************************************)
EXTENDS Integers, Sequences, FiniteSets, TLC

VARIABLES
    \* ---- conversation store and memory object
    store,      \* users/<id>/conversations.json: "missing", "valid" or "corrupt"
    file,       \* its "messages" list: records [role, content, timestamp]
    mem,        \* memory.chat_memory.messages of the caller's memory object
    memLive,    \* TRUE once the caller holds a memory object
    winSize,    \* window_size the caller gives to get_memory
    capM,       \* max_messages_in_file the caller gives to save_memory
    nextId,     \* content of the next message appended (contents are 1, 2, ...)
    appended,   \* messages appended in this behaviour
    now,        \* datetime.now() of the next save (a logical clock)
    saved,      \* history: every message handed to a save, first hand-over order
    lastOp,     \* the last store operation: [op, before, raised]
    \* ---- a turn through an entry point
    pc,         \* "idle" or "agent" (inside agent.invoke)
    entry,      \* entry point of the running turn: "cli" or "ui"
    iter,       \* iterations of the agent loop in this turn
    turns,      \* turns started so far; the prompt of turn k has content k
    session,    \* st.session_state.messages (UI) as records [role, content, kind]
    pending,    \* st.session_state.pending_event: FALSE is None
    createCalls,\* history: invocations of CalendarClient.create_event
    lastResult, \* what run_task returned last: "none", "tuple" or "str"
    history,    \* the messages build_agent put in the prompt as previous conversation
    \* ---- one call of parse_date
    today,      \* datetime.now() as a day number (days since 1970-01-01)
    pdDesc,     \* argument date_description
    pdTime,     \* argument default_time
    pdOut,      \* the returned string, "" before the call
    \* ---- one call of a tool function or of a calendar backend method
    tool,       \* the function called, "" when none is
    args,       \* its raw arguments
    done,       \* TRUE once the call is over
    threw,      \* TRUE when it ended by raising; ret is then the message
    ret,        \* what it returned
    fields,     \* the tool's parameters after normalization, as it uses them
    backend,    \* history: the backend calls it made
    fault,      \* the message of the exception the backing service raises on
                \* this call, "" when it answers
    calendar,   \* the calendar behind CalendarClient: [google, events]
    clients     \* the optional clients the ToolContext holds

memVars  == <<store, file, mem, memLive, winSize, capM, nextId, appended, now,
              saved, lastOp>>
turnVars == <<pc, entry, iter, turns, session, pending, createCalls, lastResult,
              history>>
dateVars == <<today, pdDesc, pdTime, pdOut>>
toolVars == <<tool, args, done, threw, ret, fields, backend, fault, calendar,
              clients>>
vars     == <<memVars, turnVars, dateVars, toolVars>>

(***************************************************************************)
(* Bounds of the model.                                                    *)
(***************************************************************************)
MaxStored == 22     \* messages of the history the store holds at the start
MaxMsgs  == 3       \* messages appended in one behaviour
MaxSaves == 3       \* save_memory calls in one behaviour
MaxWin   == 23      \* largest window size given to get_memory
MaxCap   == 25      \* largest cap given to save_memory
MaxTurns == 3       \* turns started in one behaviour
MaxCreates == 2     \* create_event invocations recorded in one behaviour
DaySpan  == 7       \* consecutive days tried as today, from each first day
MaxHour  == 25      \* largest number tried as an hour by the time texts

(***************************************************************************)
(* Python list helpers.                                                    *)
(***************************************************************************)
\* s[-n:] for n >= 0: the last n elements; all of s when n = 0 or n >= len(s)
PySuffix(s, n) ==
    IF n = 0 \/ n >= Len(s) THEN s ELSE SubSeq(s, Len(s) - n + 1, Len(s))

\* s[:-n] for n >= 1: all but the last n elements
PyDropLast(s, n) ==
    IF n >= Len(s) THEN <<>> ELSE SubSeq(s, 1, Len(s) - n)

RECURSIVE SelectRoles(_)
\* the loop of get_memory: user and assistant entries become messages, others are skipped
SelectRoles(s) ==
    IF s = <<>> THEN <<>>
    ELSE LET h == Head(s)
         IN  (IF h.role \in {"user", "assistant"}
                THEN <<[role |-> h.role, content |-> h.content]>>
                ELSE <<>>) \o SelectRoles(Tail(s))

(***************************************************************************)
(* The conversation store: src/storage/json_storage.py and                 *)
(* src/agent/memory.py.                                                    *)
(***************************************************************************)
SaveWindow == 20    \* window_size hard-wired in save_memory

WindowSizes == {2, 5, SaveWindow, MaxWin}
Caps        == {3, SaveWindow, MaxCap}

\* load_json, line "return json.load(f)": a file that is not valid JSON raises
load_json_raises(st) == st = "corrupt"

\* load_json(...).get("messages", []): the default when the file does not exist
load_json_messages(st, f) == IF st = "valid" THEN f ELSE <<>>

\* mutant of recent_messages: the first window_size messages instead of the last
recent_messages_oldest(messages, W) ==
    IF Len(messages) > W THEN SubSeq(messages, 1, W) ELSE messages

\* get_memory: messages[-window_size:] if len(messages) > window_size else messages
recent_messages(messages, W) ==
    IF Len(messages) > W THEN PySuffix(messages, W) ELSE messages

\* get_memory: the messages added to the fresh memory object
loaded_messages(messages, W) == SelectRoles(recent_messages(messages, W))

\* save_memory: the memory's messages as dicts, each stamped datetime.now()
memory_messages_dict(m, t) ==
    [i \in 1..Len(m) |->
        [role |-> m[i].role, content |-> m[i].content, timestamp |-> t]]

\* save_memory: the merge of the stored list with the memory's messages
merged_messages(all, md) ==
    IF Len(all) >= SaveWindow THEN PyDropLast(all, SaveWindow) \o md ELSE md

\* mutant of trimmed_messages: the slice keeps one message too many
trimmed_messages_one_more(all, M) ==
    IF Len(all) > M THEN PySuffix(all, M + 1) ELSE all

\* save_memory: keep only the last max_messages_in_file
trimmed_messages(all, M) ==
    IF Len(all) > M THEN PySuffix(all, M) ELSE all

\* save_memory: the list written back to the file
all_messages(stored, m, M, t) ==
    trimmed_messages(merged_messages(stored, memory_messages_dict(m, t)), M)

RECURSIVE Remember(_, _)
\* history: s followed by the messages of m whose content s does not hold yet
Remember(s, m) ==
    IF m = <<>> THEN s
    ELSE LET h == [role |-> Head(m).role, content |-> Head(m).content]
         IN  Remember(IF \E i \in 1..Len(s) : s[i].content = h.content
                        THEN s ELSE Append(s, h),
                      Tail(m))

Op(name, raised) == [op |-> name, before |-> store, raised |-> raised]

get_memory ==
    /\ IF load_json_raises(store)
         THEN /\ lastOp' = Op("get_memory", TRUE)
              /\ UNCHANGED <<mem, memLive>>
         ELSE /\ mem' = loaded_messages(load_json_messages(store, file), winSize)
              /\ memLive' = TRUE
              /\ lastOp' = Op("get_memory", FALSE)
    /\ UNCHANGED <<store, file, winSize, capM, nextId, appended, now, saved>>
    /\ UNCHANGED <<turnVars, dateVars, toolVars>>

\* memory.chat_memory.add_user_message(content); callers alternate user and assistant
add_user_message ==
    /\ memLive
    /\ appended < MaxMsgs
    /\ nextId % 2 = 1
    /\ mem' = Append(mem, [role |-> "user", content |-> nextId])
    /\ nextId' = nextId + 1
    /\ appended' = appended + 1
    /\ lastOp' = Op("add_user_message", FALSE)
    /\ UNCHANGED <<store, file, memLive, winSize, capM, now, saved>>
    /\ UNCHANGED <<turnVars, dateVars, toolVars>>

\* memory.chat_memory.add_ai_message(content)
add_ai_message ==
    /\ memLive
    /\ appended < MaxMsgs
    /\ nextId % 2 = 0
    /\ mem' = Append(mem, [role |-> "assistant", content |-> nextId])
    /\ nextId' = nextId + 1
    /\ appended' = appended + 1
    /\ lastOp' = Op("add_ai_message", FALSE)
    /\ UNCHANGED <<store, file, memLive, winSize, capM, now, saved>>
    /\ UNCHANGED <<turnVars, dateVars, toolVars>>

save_memory ==
    /\ memLive
    /\ now < 1 + MaxSaves
    /\ IF load_json_raises(store)
         THEN /\ lastOp' = Op("save_memory", TRUE)
              /\ UNCHANGED <<store, file, now, saved>>
         ELSE /\ file' = all_messages(load_json_messages(store, file), mem, capM, now)
              /\ store' = "valid"
              /\ now' = now + 1
              /\ saved' = Remember(saved, mem)
              /\ lastOp' = Op("save_memory", FALSE)
    /\ UNCHANGED <<mem, memLive, winSize, capM, nextId, appended>>
    /\ UNCHANGED <<turnVars, dateVars, toolVars>>

\* clear_memory overwrites the file without reading it
clear_memory ==
    /\ store # "missing"
    /\ store' = "valid"
    /\ file' = <<>>
    /\ saved' = <<>>
    /\ lastOp' = Op("clear_memory", FALSE)
    /\ UNCHANGED <<mem, memLive, winSize, capM, nextId, appended, now>>
    /\ UNCHANGED <<turnVars, dateVars, toolVars>>

\* the environment damages the file: it no longer holds valid JSON
corrupt_store ==
    /\ store = "valid"
    /\ store' = "corrupt"
    /\ file' = <<>>
    /\ lastOp' = Op("corrupt_store", FALSE)
    /\ UNCHANGED <<mem, memLive, winSize, capM, nextId, appended, now, saved>>
    /\ UNCHANGED <<turnVars, dateVars, toolVars>>

TurnIdle ==
    /\ pc = "idle" /\ entry = "cli" /\ iter = 0 /\ turns = 0
    /\ session = <<>> /\ pending = FALSE /\ createCalls = <<>>
    /\ lastResult = "none" /\ history = <<>>

\* no tool function is being called
ToolIdle ==
    /\ tool = "" /\ args = <<>> /\ done = FALSE /\ threw = FALSE /\ ret = ""
    /\ fields = <<>> /\ backend = <<>> /\ fault = ""
    /\ calendar = [google |-> FALSE, events |-> <<>>]
    /\ clients = {}

\* the backing service raises on this call
Failing == fault # ""

DateIdle ==
    /\ today = 0 /\ pdDesc = "" /\ pdTime = "" /\ pdOut = ""

MemIdle ==
    /\ store = "missing" /\ file = <<>> /\ mem = <<>> /\ memLive = FALSE
    /\ winSize = SaveWindow /\ capM = SaveWindow
    /\ nextId = 1 /\ appended = 0 /\ now = 1 /\ saved = <<>>
    /\ lastOp = [op |-> "none", before |-> "missing", raised |-> FALSE]

\* the messages 1..n in the order callers append them: user, assistant, user, ...
Exchange(n) ==
    [i \in 1..n |-> [role |-> IF i % 2 = 1 THEN "user" ELSE "assistant", content |-> i]]

\* The store at the start: missing, or the history of an earlier session, which
\* get_memory on a missing store, n appended messages and one save_memory (at
\* time 0, with n within the cap) leave behind. The caller either still holds
\* that memory object or holds none yet.
Init ==
    /\ winSize \in WindowSizes
    /\ capM \in Caps
    /\ \E n \in 0..MaxStored :
        /\ n <= capM
        /\ store = IF n = 0 THEN "missing" ELSE "valid"
        /\ file = all_messages(<<>>, Exchange(n), capM, 0)
        /\ saved = Exchange(n)
        /\ nextId = n + 1
        /\ \/ mem = <<>> /\ memLive = FALSE
           \/ mem = Exchange(n) /\ memLive = TRUE
    /\ appended = 0
    /\ now = 1
    /\ lastOp = [op |-> "none", before |-> "missing", raised |-> FALSE]
    /\ TurnIdle
    /\ DateIdle
    /\ ToolIdle

Next ==
    \/ get_memory
    \/ add_user_message
    \/ add_ai_message
    \/ save_memory
    \/ clear_memory
    \/ corrupt_store

Spec == Init /\ [][Next]_vars

(***************************************************************************)
(* A turn: src/main.py (cli), src/ui.py (chat input, approval buttons) and *)
(* src/agent/coordinator.py (build_agent, run_task). The agent loop is an  *)
(* opaque LLM: at each iteration it calls any tool of build_agent's list,  *)
(* gives its final answer, or fails.                                       *)
(***************************************************************************)
max_iterations == 12    \* AgentExecutor(max_iterations=12)

\* the tools build_agent hands to the agent loop
AgentTools ==
    {"parse_date", "check_weather", "get_weather_forecast", "check_availability",
     "get_calendar_events", "find_available_times", "create_calendar_event",
     "trigger_n8n"}

Failures == {"timeout", "max_iterations", "other"}

\* contents of the messages of turn k
PromptOf(k) == 2 * k - 1
ReplyOf(k)  == 2 * k

\* an invocation of CalendarClient.create_event, by the tool or by the button handler
CreateCall(by) == [by |-> by, turn |-> turns]

\* cli: click.prompt then run_task(ctx, prompt); ui: st.chat_input, the prompt
\* joins the session history, then run_task(st.session_state.tool_context, prompt).
\* Neither passes a memory, so run_task skips add_user_message.
StartTurn(e) ==
    /\ pc = "idle"
    /\ turns < MaxTurns
    /\ pc' = "agent"
    /\ entry' = e
    /\ iter' = 0
    /\ turns' = turns + 1
    /\ session' = IF e = "ui"
                    THEN Append(session, [role |-> "user", content |-> PromptOf(turns + 1),
                                          kind |-> "prompt"])
                    ELSE session
    /\ UNCHANGED <<pending, createCalls, lastResult>>
    /\ UNCHANGED history
    /\ UNCHANGED <<memVars, dateVars, toolVars>>

\* one iteration of agent.invoke: the loop runs the tool it chose; the tool
\* create_calendar_event goes straight to ctx.calendar_client.create_event
AgentCallsTool(t) ==
    /\ pc = "agent"
    /\ iter < max_iterations
    /\ iter' = iter + 1
    /\ IF t = "create_calendar_event"
         THEN /\ Len(createCalls) < MaxCreates
              /\ createCalls' = Append(createCalls, CreateCall("tool"))
         ELSE UNCHANGED createCalls
    /\ UNCHANGED <<pc, entry, turns, session, pending, lastResult>>
    /\ UNCHANGED history
    /\ UNCHANGED <<memVars, dateVars, toolVars>>

\* the rest of the ui chat handler once run_task has returned `kind`; a tuple
\* has no .lower(), so the handler's except branch records an error message
ui_after_run_task(kind, suggests) ==
    IF kind = "tuple"
      THEN /\ session' = Append(session, [role |-> "assistant", content |-> ReplyOf(turns),
                                          kind |-> "error"])
           /\ UNCHANGED pending
      ELSE /\ session' = Append(session, [role |-> "assistant", content |-> ReplyOf(turns),
                                          kind |-> "reply"])
           /\ pending' = IF suggests THEN TRUE ELSE pending

\* agent.invoke returns: run_task returns (output, tool_calls)
AgentFinishes ==
    /\ pc = "agent"
    /\ lastResult' = "tuple"
    /\ pc' = "idle"
    /\ IF entry = "ui"
         THEN ui_after_run_task("tuple", FALSE)
         ELSE UNCHANGED <<session, pending>>
    /\ UNCHANGED <<entry, iter, turns, createCalls>>
    /\ UNCHANGED history
    /\ UNCHANGED <<memVars, dateVars, toolVars>>

\* agent.invoke raises: run_task returns one of its three messages, a string;
\* only the message that quotes the error can hold a suggestion keyword and a time
AgentFails(f, suggests) ==
    /\ pc = "agent"
    /\ suggests => f = "other"
    /\ lastResult' = "str"
    /\ pc' = "idle"
    /\ IF entry = "ui"
         THEN ui_after_run_task("str", suggests)
         ELSE UNCHANGED <<session, pending>>
    /\ UNCHANGED <<entry, iter, turns, createCalls>>
    /\ UNCHANGED history
    /\ UNCHANGED <<memVars, dateVars, toolVars>>

\* ui: the button "Approve & Create Event". fromisoformat may reject the pending
\* event's time; otherwise create_event is invoked and returns an id, None or raises
ApproveEvent(parses, outcome) ==
    /\ pc = "idle"
    /\ pending
    /\ IF parses
         THEN /\ Len(createCalls) < MaxCreates
              /\ createCalls' = Append(createCalls, CreateCall("button"))
              /\ pending' = (outcome = "raises")
              /\ session' = IF outcome = "id"
                              THEN Append(session, [role |-> "assistant", content |-> 0,
                                                    kind |-> "created"])
                              ELSE session
         ELSE UNCHANGED <<createCalls, pending, session>>
    /\ UNCHANGED <<pc, entry, iter, turns, lastResult>>
    /\ UNCHANGED history
    /\ UNCHANGED <<memVars, dateVars, toolVars>>

\* ui: the button "Reject"
RejectEvent ==
    /\ pc = "idle"
    /\ pending
    /\ pending' = FALSE
    /\ UNCHANGED <<pc, entry, iter, turns, session, createCalls, lastResult>>
    /\ UNCHANGED history
    /\ UNCHANGED <<memVars, dateVars, toolVars>>

\* ui: the button "Clear Chat History"
ClearChat ==
    /\ pc = "idle"
    /\ session # <<>>
    /\ session' = <<>>
    /\ pending' = FALSE
    /\ UNCHANGED <<pc, entry, iter, turns, createCalls, lastResult>>
    /\ UNCHANGED history
    /\ UNCHANGED <<memVars, dateVars, toolVars>>

InitTurn ==
    /\ MemIdle
    /\ TurnIdle
    /\ DateIdle
    /\ ToolIdle

NextTurn ==
    \/ \E e \in {"cli", "ui"} : StartTurn(e)
    \/ \E t \in AgentTools : AgentCallsTool(t)
    \/ AgentFinishes
    \/ \E f \in Failures, b \in BOOLEAN : AgentFails(f, b)
    \/ \E b \in BOOLEAN, o \in {"id", "none", "raises"} : ApproveEvent(b, o)
    \/ RejectEvent
    \/ ClearChat

SpecTurn == InitTurn /\ [][NextTurn]_vars

(***************************************************************************)
(* Claims about a turn (checked under SpecTurn).                           *)
(***************************************************************************)
\* C1: create_event is invoked only after the user approved that event: every
\* invocation comes from the approval button, none from a tool call of the agent.
C1_CreateOnlyAfterApproval ==
    \A i \in 1..Len(createCalls) : createCalls[i].by = "button"

\* C2: once an entry point has processed a message through run_task, the
\* user's message and the assistant's reply are in the durable conversation store.
C2_TurnPersisted ==
    (pc = "idle" /\ turns > 0)
        => /\ store = "valid"
           /\ \E i \in 1..Len(file) :
                 /\ i < Len(file)
                 /\ file[i].role = "user" /\ file[i].content = PromptOf(turns)
                 /\ file[i + 1].role = "assistant" /\ file[i + 1].content = ReplyOf(turns)

(***************************************************************************)
(* Python string helpers, on TLA+ strings.                                 *)
(***************************************************************************)
Char(s, i) == SubSeq(s, i, i)

UpperAlpha == "ABCDEFGHIJKLMNOPQRSTUVWXYZ"
LowerAlpha == "abcdefghijklmnopqrstuvwxyz"
DigitChars == "0123456789"
WhiteSpace == {" ", "\t", "\n"}
QuoteChars == {"\"", "'"}

IndexIn(alphabet, c) ==
    IF \E i \in 1..Len(alphabet) : Char(alphabet, i) = c
      THEN CHOOSE i \in 1..Len(alphabet) : Char(alphabet, i) = c
      ELSE 0

IsDigitChar(c) == IndexIn(DigitChars, c) > 0
IsWordChar(c) ==
    \/ IndexIn(UpperAlpha, c) > 0 \/ IndexIn(LowerAlpha, c) > 0
    \/ IsDigitChar(c) \/ c = "_"

RECURSIVE Lower(_)
\* str.lower()
Lower(s) ==
    IF s = "" THEN ""
    ELSE LET c == Char(s, 1)
             k == IndexIn(UpperAlpha, c)
         IN  (IF k > 0 THEN Char(LowerAlpha, k) ELSE c) \o Lower(SubSeq(s, 2, Len(s)))

RECURSIVE LStrip(_, _)
LStrip(s, cs) ==
    IF s # "" /\ Char(s, 1) \in cs THEN LStrip(SubSeq(s, 2, Len(s)), cs) ELSE s

RECURSIVE RStrip(_, _)
RStrip(s, cs) ==
    IF s # "" /\ Char(s, Len(s)) \in cs THEN RStrip(SubSeq(s, 1, Len(s) - 1), cs) ELSE s

\* str.strip() and str.strip(chars)
StripChars(s, cs) == RStrip(LStrip(s, cs), cs)
Strip(s) == StripChars(s, WhiteSpace)

\* is sub at position i of s
StartsAt(s, i, sub) == i + Len(sub) - 1 <= Len(s) /\ SubSeq(s, i, i + Len(sub) - 1) = sub

\* str.find(sub) + 1: the first position of sub in s, 0 when absent
Find(s, sub) ==
    IF \E i \in 1..Len(s) : StartsAt(s, i, sub)
      THEN CHOOSE i \in 1..Len(s) : StartsAt(s, i, sub) /\ \A j \in 1..(i - 1) : ~StartsAt(s, j, sub)
      ELSE 0

\* sub in s
Contains(s, sub) == Find(s, sub) > 0

RECURSIVE Replace(_, _, _)
\* str.replace(old, new), old not empty
Replace(s, old, new) ==
    LET i == Find(s, old)
    IN  IF i = 0 THEN s
        ELSE SubSeq(s, 1, i - 1) \o new \o Replace(SubSeq(s, i + Len(old), Len(s)), old, new)

RECURSIVE Split(_, _)
\* str.split(sep): a sequence of strings
Split(s, sep) ==
    LET i == Find(s, sep)
    IN  IF i = 0 THEN <<s>>
        ELSE <<SubSeq(s, 1, i - 1)>> \o Split(SubSeq(s, i + Len(sep), Len(s)), sep)

\* str.isdigit()
IsDigit(s) == s # "" /\ \A i \in 1..Len(s) : IsDigitChar(Char(s, i))

RECURSIVE ToInt(_)
\* int(s) for a string of digits
ToInt(s) ==
    IF s = "" THEN 0
    ELSE 10 * ToInt(SubSeq(s, 1, Len(s) - 1)) + (IndexIn(DigitChars, Char(s, Len(s))) - 1)

RECURSIVE IntToStr(_)
\* str(n) for n >= 0
IntToStr(n) ==
    IF n < 10 THEN Char(DigitChars, n + 1)
    ELSE IntToStr(n \div 10) \o Char(DigitChars, (n % 10) + 1)

\* f"{n:02d}" and f"{n:04d}"
Pad2(n) == IF n < 10 THEN "0" \o IntToStr(n) ELSE IntToStr(n)
Pad4(n) ==
    IF n < 10 THEN "000" \o IntToStr(n)
    ELSE IF n < 100 THEN "00" \o IntToStr(n)
    ELSE IF n < 1000 THEN "0" \o IntToStr(n)
    ELSE IntToStr(n)

(***************************************************************************)
(* _parse_time: src/agent/tools/calendar.py.                               *)
(***************************************************************************)
DefaultTime == "09:00:00"

\* mutant of parse_time_pm: 12 is added to the hour 12 as well
parse_time_pm_adds_always(clean) ==
    LET hour_str == Replace(clean, "pm", "")
        h12 == ToInt(hour_str) + 12
        h24 == IF h12 >= 24 THEN 23 ELSE h12
    IN  IF ~IsDigit(hour_str) THEN DefaultTime ELSE Pad2(h24) \o ":00:00"

\* the branch of _parse_time for a text holding "pm"
parse_time_pm(clean) ==
    LET hour_str == Replace(clean, "pm", "")
        hour == ToInt(hour_str)
        h12 == IF hour # 12 THEN hour + 12 ELSE hour
        h24 == IF h12 >= 24 THEN 23 ELSE h12
    IN  IF ~IsDigit(hour_str) THEN DefaultTime ELSE Pad2(h24) \o ":00:00"

\* the branch of _parse_time for a text holding "am" and no "pm": no clamp
parse_time_am(clean) ==
    LET hour_str == Replace(clean, "am", "")
        hour == ToInt(hour_str)
        h == IF hour = 12 THEN 0 ELSE hour
    IN  IF ~IsDigit(hour_str) THEN DefaultTime ELSE Pad2(h) \o ":00:00"

\* the branch of _parse_time for a text holding ":"
parse_time_colon(t) ==
    LET parts == Split(t, ":")
        hour == ToInt(parts[1])
        minute == IF Len(parts) > 1 /\ IsDigit(parts[2]) THEN ToInt(parts[2]) ELSE 0
    IN  IF ~IsDigit(parts[1]) THEN DefaultTime
        ELSE Pad2(IF hour >= 24 THEN 23 ELSE hour) \o ":"
               \o Pad2(IF minute >= 60 THEN 59 ELSE minute) \o ":00"

\* the branch of _parse_time for anything else: bare digits are an hour
parse_time_digits(t) ==
    IF ~IsDigit(t) THEN DefaultTime
    ELSE Pad2(IF ToInt(t) >= 24 THEN 23 ELSE ToInt(t)) \o ":00:00"

\* the 12-hour branch on time_str_clean
parse_time_12h(clean) ==
    IF Contains(clean, "pm") THEN parse_time_pm(clean) ELSE parse_time_am(clean)

\* _parse_time after time_str.strip().lower()
parse_time_lower(t) ==
    IF t = "" THEN DefaultTime
    ELSE IF Contains(t, "noon") THEN "12:00:00"
    ELSE IF Contains(t, "midnight") THEN "00:00:00"
    ELSE IF Contains(t, "pm") \/ Contains(t, "am")
           THEN parse_time_12h(Replace(Replace(t, " ", ""), ":", ""))
    ELSE IF Contains(t, ":") THEN parse_time_colon(t)
    ELSE parse_time_digits(t)

_parse_time(time_str) == parse_time_lower(Lower(Strip(time_str)))

(***************************************************************************)
(* Calendar arithmetic of datetime: a date is a day number, the days since *)
(* 1970-01-01.                                                             *)
(***************************************************************************)
\* datetime.weekday(): Monday = 0 ... Sunday = 6
weekday(day) == (day + 3) % 7

IsLeap(y) == (y % 4 = 0 /\ y % 100 # 0) \/ y % 400 = 0

DaysInMonth(y, m) ==
    IF m = 2 THEN (IF IsLeap(y) THEN 29 ELSE 28)
    ELSE IF m \in {4, 6, 9, 11} THEN 30 ELSE 31

\* the day number of the date y-m-d
DayNumber(y, m, d) ==
    LET yy == IF m <= 2 THEN y - 1 ELSE y
        era == yy \div 400
        yoe == yy - era * 400
        doy == (153 * (IF m > 2 THEN m - 3 ELSE m + 9) + 2) \div 5 + d - 1
        doe == yoe * 365 + yoe \div 4 - yoe \div 100 + doy
    IN  era * 146097 + doe - 719468

\* the date [y, m, d] of a day number
CivilDate(day) ==
    LET z == day + 719468
        era == z \div 146097
        doe == z - era * 146097
        yoe == (doe - doe \div 1460 + doe \div 36524 - doe \div 146096) \div 365
        doy == doe - (365 * yoe + yoe \div 4 - yoe \div 100)
        mp == (5 * doy + 2) \div 153
        d == doy - (153 * mp + 2) \div 5 + 1
        m == IF mp < 10 THEN mp + 3 ELSE mp - 9
    IN  [y |-> yoe + era * 400 + (IF m <= 2 THEN 1 ELSE 0), m |-> m, d |-> d]

\* date.strftime('%Y-%m-%d')
FormatYMD(y, m, d) == Pad4(y) \o "-" \o Pad2(m) \o "-" \o Pad2(d)
strftime_date(day) ==
    LET c == CivilDate(day) IN FormatYMD(c.y, c.m, c.d)

(***************************************************************************)
(* The regular expressions parse_date uses.                                *)
(***************************************************************************)
\* the length of the run of non-quote characters of s from position i on
RECURSIVE NonQuoteRun(_, _)
NonQuoteRun(s, i) ==
    IF i > Len(s) \/ Char(s, i) \in QuoteChars THEN 0 ELSE 1 + NonQuoteRun(s, i + 1)

\* does key=["']([^"']+)["'] match s at position i
QuotedAt(s, i, key) ==
    /\ StartsAt(s, i, key)
    /\ i + Len(key) <= Len(s)
    /\ Char(s, i + Len(key)) \in QuoteChars
    /\ LET from == i + Len(key) + 1
           n == NonQuoteRun(s, from)
       IN  n >= 1 /\ from + n <= Len(s)

\* re.search(key + r'["\']([^"\']+)["\']', s): the position of the match, 0 for None
SearchQuoted(s, key) ==
    IF \E i \in 1..Len(s) : QuotedAt(s, i, key)
      THEN CHOOSE i \in 1..Len(s) : QuotedAt(s, i, key) /\ \A j \in 1..(i - 1) : ~QuotedAt(s, j, key)
      ELSE 0

\* match.group(1) of that search
QuotedGroup(s, key) ==
    LET from == SearchQuoted(s, key) + Len(key) + 1
    IN  SubSeq(s, from, from + NonQuoteRun(s, from) - 1)

\* does r'\bat\b' match s at position i
WordAtAt(s, i) ==
    /\ StartsAt(s, i, "at")
    /\ i = 1 \/ ~IsWordChar(Char(s, i - 1))
    /\ i + 2 > Len(s) \/ ~IsWordChar(Char(s, i + 2))

\* re.search(r'\bat\b', s): the position of the match, 0 for None
SearchAt(s) ==
    IF \E i \in 1..Len(s) : WordAtAt(s, i)
      THEN CHOOSE i \in 1..Len(s) : WordAtAt(s, i) /\ \A j \in 1..(i - 1) : ~WordAtAt(s, j)
      ELSE 0

\* re.split(r'\bat\b', s, maxsplit=1)[1].strip()
AfterAt(s) == Strip(SubSeq(s, SearchAt(s) + 2, Len(s)))

(***************************************************************************)
(* datetime.strptime for the formats parse_date tries. The matching is     *)
(* case-insensitive, blanks of the format match runs of whitespace, and a  *)
(* numeric field is the whole run of digits between its separators.        *)
(***************************************************************************)
NoMatch == [ok |-> FALSE, y |-> 0, m |-> 0, d |-> 0, H |-> 0, M |-> 0, S |-> 0]

NumField(t, minLen, maxLen, lo, hi) ==
    /\ IsDigit(t)
    /\ Len(t) >= minLen /\ Len(t) <= maxLen
    /\ ToInt(t) >= lo /\ ToInt(t) <= hi

RECURSIVE SplitWS(_)
\* the tokens of s between runs of whitespace
SplitWS(s) ==
    LET t == LStrip(s, WhiteSpace)
        n == IF \E i \in 1..Len(t) : Char(t, i) \in WhiteSpace
               THEN CHOOSE i \in 1..Len(t) :
                      Char(t, i) \in WhiteSpace /\ \A j \in 1..(i - 1) : Char(t, j) \notin WhiteSpace
               ELSE Len(t) + 1
    IN  IF t = "" THEN <<>>
        ELSE <<SubSeq(t, 1, n - 1)>> \o SplitWS(SubSeq(t, n, Len(t)))

MonthNames ==
    <<"january", "february", "march", "april", "may", "june", "july", "august",
      "september", "october", "november", "december">>
MonthAbbrs ==
    <<"jan", "feb", "mar", "apr", "may", "jun", "jul", "aug", "sep", "oct", "nov", "dec">>

MonthIndex(names, t) ==
    IF \E i \in 1..12 : names[i] = Lower(t)
      THEN CHOOSE i \in 1..12 : names[i] = Lower(t)
      ELSE 0

ValidDate(y, m, d) == y >= 1 /\ m \in 1..12 /\ d >= 1 /\ d <= DaysInMonth(y, m)

\* "%Y-%m-%d" given as the fields between "-"
MatchYMDParts(parts) ==
    IF /\ Len(parts) = 3
       /\ NumField(parts[1], 4, 4, 0, 9999)
       /\ NumField(parts[2], 1, 2, 1, 12)
       /\ NumField(parts[3], 1, 2, 1, 31)
       /\ ValidDate(ToInt(parts[1]), ToInt(parts[2]), ToInt(parts[3]))
      THEN [NoMatch EXCEPT !.ok = TRUE, !.y = ToInt(parts[1]), !.m = ToInt(parts[2]),
                           !.d = ToInt(parts[3])]
      ELSE NoMatch

MatchYMD(t) == MatchYMDParts(Split(t, "-"))

\* "%H:%M:%S" given as the fields between ":"
MatchHMSParts(parts) ==
    IF /\ Len(parts) = 3
       /\ NumField(parts[1], 1, 2, 0, 23)
       /\ NumField(parts[2], 1, 2, 0, 59)
       /\ NumField(parts[3], 1, 2, 0, 59)
      THEN [NoMatch EXCEPT !.ok = TRUE, !.H = ToInt(parts[1]), !.M = ToInt(parts[2]),
                           !.S = ToInt(parts[3])]
      ELSE NoMatch

MatchHMS(t) == MatchHMSParts(Split(t, ":"))

\* "%I:%M %p" given as the fields of "I:M" and the lower-case "p"
MatchIMpParts(parts, p) ==
    IF /\ Len(parts) = 2
       /\ NumField(parts[1], 1, 2, 1, 12)
       /\ NumField(parts[2], 1, 2, 0, 59)
       /\ p \in {"am", "pm"}
      THEN [NoMatch EXCEPT !.ok = TRUE,
                           !.H = IF p = "pm"
                                   THEN (IF ToInt(parts[1]) = 12 THEN 12 ELSE ToInt(parts[1]) + 12)
                                   ELSE (IF ToInt(parts[1]) = 12 THEN 0 ELSE ToInt(parts[1])),
                           !.M = ToInt(parts[2])]
      ELSE NoMatch

MatchIMp(t, p) == MatchIMpParts(Split(t, ":"), Lower(p))

\* "<month> %d, %Y" given as the month's index, the token "d," and the token "Y"
MatchMonthDayAt(mi, dtok, ytok) ==
    IF /\ mi > 0
       /\ dtok # "" /\ Char(dtok, Len(dtok)) = ","
       /\ NumField(SubSeq(dtok, 1, Len(dtok) - 1), 1, 2, 1, 31)
       /\ NumField(ytok, 4, 4, 0, 9999)
       /\ ValidDate(ToInt(ytok), mi, ToInt(SubSeq(dtok, 1, Len(dtok) - 1)))
      THEN [NoMatch EXCEPT !.ok = TRUE, !.y = ToInt(ytok), !.m = mi,
                           !.d = ToInt(SubSeq(dtok, 1, Len(dtok) - 1))]
      ELSE NoMatch

MatchMonthDay(toks, names) == MatchMonthDayAt(MonthIndex(names, toks[1]), toks[2], toks[3])

WithTime(date, time) ==
    IF date.ok /\ time.ok
      THEN [date EXCEPT !.H = time.H, !.M = time.M, !.S = time.S]
      ELSE NoMatch

\* the position of the first character of t that is in cs, 0 when none is
FirstOf(t, cs) ==
    IF \E i \in 1..Len(t) : Char(t, i) \in cs
      THEN CHOOSE i \in 1..Len(t) : Char(t, i) \in cs /\ \A j \in 1..(i - 1) : Char(t, j) \notin cs
      ELSE 0

\* "%Y-%m-%dT%H:%M:%S" with the literal T at position i of t, 0 when t has none
MatchYMDTHMS(t, i) ==
    IF i > 0
      THEN WithTime(MatchYMD(SubSeq(t, 1, i - 1)), MatchHMS(SubSeq(t, i + 1, Len(t))))
      ELSE NoMatch

\* strptime on the whitespace-separated tokens toks of t
strptime_tokens(t, fmt, toks) ==
    CASE fmt \in {"%B %d, %Y %I:%M %p", "%b %d, %Y %I:%M %p"} ->
           IF Len(toks) = 5
             THEN WithTime(MatchMonthDay(toks, IF Contains(fmt, "%B") THEN MonthNames ELSE MonthAbbrs),
                           MatchIMp(toks[4], toks[5]))
             ELSE NoMatch
      [] fmt \in {"%B %d, %Y", "%b %d, %Y"} ->
           IF Len(toks) = 3
             THEN MatchMonthDay(toks, IF Contains(fmt, "%B") THEN MonthNames ELSE MonthAbbrs)
             ELSE NoMatch
      [] fmt = "%Y-%m-%d" -> MatchYMD(t)
      [] fmt = "%Y-%m-%d %H:%M:%S" ->
           IF Len(toks) = 2 THEN WithTime(MatchYMD(toks[1]), MatchHMS(toks[2])) ELSE NoMatch
      [] fmt = "%Y-%m-%dT%H:%M:%S" -> MatchYMDTHMS(t, FirstOf(t, {"T", "t"}))

\* datetime.strptime(t, fmt): NoMatch stands for ValueError
strptime(t, fmt) == strptime_tokens(t, fmt, SplitWS(t))

(***************************************************************************)
(* parse_date: src/agent/tools/calendar.py.                                *)
(***************************************************************************)
date_formats ==
    <<"%B %d, %Y %I:%M %p", "%B %d, %Y", "%b %d, %Y %I:%M %p", "%b %d, %Y",
      "%Y-%m-%d", "%Y-%m-%d %H:%M:%S", "%Y-%m-%dT%H:%M:%S">>

day_names ==
    <<"monday", "tuesday", "wednesday", "thursday", "friday", "saturday", "sunday">>

\* the default_time of the key=value form, looked for in the recovered
\* date_description first and in the default_time argument next
recover_default_time(dd1, dt) ==
    <<dd1, IF SearchQuoted(dd1, "default_time=") > 0
             THEN QuotedGroup(dd1, "default_time=")
             ELSE IF SearchQuoted(dt, "default_time=") > 0
                    THEN QuotedGroup(dt, "default_time=") ELSE dt>>

\* argument recovery, key=value form: the pair <<date_description, default_time>>
recover_key_value(dd, dt) ==
    IF Contains(dd, "date_description=") \/ Contains(dt, "default_time=")
      THEN recover_default_time(IF SearchQuoted(dd, "date_description=") > 0
                                  THEN QuotedGroup(dd, "date_description=") ELSE dd, dt)
      ELSE <<dd, dt>>

\* p.strip().strip('"') for the first two of the comma-separated raw parts
recover_comma_parts(raw, dd, dt) ==
    IF Len(raw) >= 2
      THEN <<StripChars(Strip(raw[1]), {"\""}),
             IF StripChars(Strip(raw[2]), {"\""}) # ""
               THEN StripChars(Strip(raw[2]), {"\""}) ELSE dt>>
      ELSE <<dd, dt>>

\* argument recovery, comma form: "Friday", "18:00:00" in the first argument
recover_comma(dd, dt) ==
    IF Contains(dd, ",") /\ Contains(dd, "\"") /\ ~Contains(dd, "date_description=")
      THEN recover_comma_parts(Split(dd, ","), dd, dt)
      ELSE <<dd, dt>>

\* "Ensure time_str is in HH:MM:SS format": only HH:MM gets its seconds
with_seconds(time_str) ==
    IF Len(Split(time_str, ":")) = 2 THEN time_str \o ":00" ELSE time_str

\* the time after a standalone "at", when there is one
time_at(date_lower, time_str) ==
    IF SearchAt(date_lower) > 0 THEN _parse_time(AfterAt(date_lower)) ELSE time_str

\* mutant of days_until_saturday: on a Saturday the weekend is always today
days_until_saturday_today(current_day_num, date_lower) ==
    LET d == 5 - current_day_num
    IN  IF d < 0 THEN d + 7 ELSE d

\* days until the coming Saturday
days_until_saturday(current_day_num, date_lower) ==
    LET d == 5 - current_day_num
    IN  IF d < 0 THEN d + 7
        ELSE IF d = 0 /\ ~Contains(date_lower, "this") THEN 7
        ELSE d

\* mutant of days_ahead: "next" is ignored when the day is later this week
days_ahead_next_ignored(target_day_num, current_day_num, is_next, is_this) ==
    LET d == target_day_num - current_day_num
    IN  IF d < 0 THEN d + 7
        ELSE IF d = 0 THEN (IF is_next THEN 7 ELSE 0)
        ELSE d

\* days from today to the named weekday
days_ahead(target_day_num, current_day_num, is_next, is_this) ==
    LET d == target_day_num - current_day_num
    IN  IF d < 0 THEN (IF is_this THEN d + 7 ELSE d + 7)
        ELSE IF d = 0 THEN (IF is_next THEN 7 ELSE 0)
        ELSE (IF is_next THEN d + 7 ELSE d)

RECURSIVE first_format_from(_, _)
\* the loop over date_formats from index i on
first_format_from(t, i) ==
    IF i > Len(date_formats) THEN 0
    ELSE IF strptime(t, date_formats[i]).ok THEN i
    ELSE first_format_from(t, i + 1)

\* the index in date_formats of the first format that parses t, 0 when none does
first_format(t) == first_format_from(t, 1)

\* the index in day_names of the first name found in date_lower, 0 when none is
first_day_name(date_lower) ==
    IF \E i \in 1..7 : Contains(date_lower, day_names[i])
      THEN CHOOSE i \in 1..7 :
             /\ Contains(date_lower, day_names[i])
             /\ \A j \in 1..(i - 1) : ~Contains(date_lower, day_names[j])
      ELSE 0

\* mutant of parse_error: the message leaves the text out
parse_error_no_text(date_description) ==
    "Error: Could not parse date. Supported formats: day names (e.g., 'Friday', 'Saturday'), dates like 'December 7, 2023', or ISO dates like '2025-12-07'."

parse_error(date_description) ==
    "Error: Could not parse date '" \o date_description
      \o "'. Supported formats: day names (e.g., 'Friday', 'Saturday'), dates like 'December 7, 2023', or ISO dates like '2025-12-07'."

\* the result for a date string that strptime parsed with format fmt
format_parsed(parsed, fmt, time_str) ==
    FormatYMD(parsed.y, parsed.m, parsed.d) \o "T"
      \o (IF Contains(fmt, "%I:%M %p") \/ Contains(fmt, "%H:%M")
            THEN Pad2(parsed.H) \o ":" \o Pad2(parsed.M) \o ":" \o Pad2(parsed.S)
            ELSE time_str)

\* the day-name branch: di is the index of the name found, 0 for none
resolve_day_name(date_description, date_lower, time_str, di, today_day) ==
    IF di = 0
      THEN parse_error(date_description)
      ELSE strftime_date(today_day
                           + days_ahead(di - 1, weekday(today_day),
                                        Contains(date_lower, "next"),
                                        Contains(date_lower, "this")))
             \o "T" \o with_seconds(time_at(date_lower, time_str))

\* the full-date branch: fi is the index of the format that parses, 0 for none
resolve_format(date_description, date_lower, time_str, fi, today_day) ==
    IF fi > 0
      THEN format_parsed(strptime(Strip(date_description), date_formats[fi]),
                         date_formats[fi], time_str)
      ELSE resolve_day_name(date_description, date_lower, time_str,
                            first_day_name(date_lower), today_day)

\* mutant of tonight_day: tonight is the day after today
tonight_day_after(today_day) == today_day + 1

\* "Handle "tonight" - treat as today but with evening time"
tonight_day(today_day) == today_day

\* the keyword branches, in the order of the code
resolve_keywords(date_description, date_lower, default_time, time_str, today_day) ==
    IF Contains(date_lower, "tonight")
      THEN strftime_date(tonight_day(today_day)) \o "T"
             \o time_at(date_lower, IF default_time = DefaultTime THEN "18:00:00" ELSE time_str)
    ELSE IF date_lower = "today"
      THEN strftime_date(today_day) \o "T" \o time_at(date_lower, time_str)
    ELSE IF Contains(date_lower, "tomorrow")
      THEN strftime_date(today_day + 1) \o "T" \o time_at(date_lower, time_str)
    ELSE IF Contains(date_lower, "weekend")
      THEN strftime_date(today_day + days_until_saturday(weekday(today_day), date_lower))
             \o "T" \o time_str
    ELSE resolve_format(date_description, date_lower, time_str,
                        first_format(Strip(date_description)), today_day)

\* date_lower and time_str of the recovered arguments
resolve_date(date_description, default_time, today_day) ==
    resolve_keywords(date_description, Strip(Lower(date_description)), default_time,
                     with_seconds(Strip(default_time)), today_day)

\* "Ensure default_time is set"
resolve_arguments(r, today_day) ==
    resolve_date(r[1], IF Strip(r[2]) = "" THEN DefaultTime ELSE r[2], today_day)

\* the comma form is looked for in what the key=value form left
resolve_recovered(r, today_day) == resolve_arguments(recover_comma(r[1], r[2]), today_day)

parse_date(date_description, default_time, today_day) ==
    resolve_recovered(recover_key_value(date_description, default_time), today_day)

(***************************************************************************)
(* One call of the tool parse_date, on inputs drawn at the start.          *)
(***************************************************************************)
Modifiers == <<"", "this ", "next ">>
DayTitles == <<"Monday", "Tuesday", "Wednesday", "Thursday", "Friday", "Saturday", "Sunday">>

\* "Friday", "this Friday", "next Friday", ...
WeekdayDesc(m, d) == Modifiers[m] \o DayTitles[d]

WeekdayDescs == {WeekdayDesc(m, d) : m \in 1..3, d \in 1..7}

OtherDescs ==
    {"today", "tomorrow", "tonight", "this weekend", "weekend",
     "Friday at 2pm", "Friday at 25am", "tomorrow at 14:30", "this weekend at 2pm",
     "2025-12-07", "2025-12-07T11:00:00", "2025-12-07 11:00:00", "2025-12-07T11:00",
     "December 7, 2023", "Dec 7, 2023 11:00 AM", "garbage",
     "2024-02-29T23:59:59", "2025-01-01T00:00", "today at 5pm", "someday soon",
     "tonight at 7pm", "dinner tonight", "Tonight at 8:30", "tomorrow at noon",
     "Saturday at 2pm", "next Tuesday at 10", "this weekend at noon", "next weekend",
     "Weekend", "tomorrow or this weekend", "\"this weekend\", \"10:00\"",
     "\"tonight\", \"19:00:00\"", "date_description=\"tomorrow\", default_time=\"18:00\"",
     "date_description=\"Friday at 2pm\", default_time=\"18:00:00\"",
     "\"Friday\", \"18:00:00\"",
     "date_description=\"this Friday\", default_time=\"18:00:00\"",
     "date_description=\"someday\", default_time=\"18:00:00\""}

Descs == WeekdayDescs \cup OtherDescs

Times == {"09:00:00", "18:00:00", "18:00", "", "6pm"}

\* today ranges over the week of Monday 2025-11-17 and over the turn of the year
Todays ==
    (DayNumber(2025, 11, 17)..(DayNumber(2025, 11, 17) + DaySpan - 1))
        \cup (DayNumber(2025, 12, 26)..(DayNumber(2025, 12, 26) + DaySpan - 1))

InitDate ==
    /\ MemIdle
    /\ TurnIdle
    /\ ToolIdle
    /\ today \in Todays
    /\ pdDesc \in Descs
    /\ pdTime \in Times
    /\ pdOut = ""

\* the agent loop runs the tool parse_date on its arguments
ParseDateCall ==
    /\ pdOut = ""
    /\ pdOut' = parse_date(pdDesc, pdTime, today)
    /\ UNCHANGED <<today, pdDesc, pdTime>>
    /\ UNCHANGED <<memVars, turnVars, toolVars>>

NextDate == ParseDateCall

SpecDate == InitDate /\ [][NextDate]_vars

(***************************************************************************)
(* One call of _parse_time, on a text drawn at the start.                  *)
(***************************************************************************)
TimeSuffixes == {"", "am", "pm", " am", " PM", "AM", ":30", ":5", ":75", ":30pm", ":30am"}

TimeTexts ==
    {IntToStr(h) \o sfx : h \in 0..MaxHour, sfx \in TimeSuffixes}
        \cup {"", "  ", "noon", "12 noon", "midnight", "Midnight ", "garbage", "am", "pm",
              "007", "0007pm", "123", "1234am", "14: 30", "ab:cd", "1:2:3", "5 :30",
              "p:m am", " 11am ", "half past two", "2 o'clock"}

InitTime ==
    /\ MemIdle
    /\ TurnIdle
    /\ DateIdle
    /\ tool = "_parse_time"
    /\ \E t \in TimeTexts : args = <<t>>
    /\ done = FALSE /\ threw = FALSE /\ ret = "" /\ fields = <<>> /\ backend = <<>>
    /\ fault = ""
    /\ calendar = [google |-> FALSE, events |-> <<>>]
    /\ clients = {}

\* parse_date hands the text after "at" to _parse_time
ParseTimeCall ==
    /\ tool = "_parse_time" /\ ~done
    /\ done' = TRUE
    /\ ret' = _parse_time(args[1])
    /\ UNCHANGED <<tool, args, threw, fields, backend, fault, calendar, clients>>
    /\ UNCHANGED <<memVars, turnVars, dateVars>>

NextTime == ParseTimeCall

SpecTime == InitTime /\ [][NextTime]_vars

(***************************************************************************)
(* The calendar tools and their argument recovery:                         *)
(* src/agent/tools/calendar.py, over CalendarClient of                     *)
(* src/integrations/calendar_api.py.                                       *)
(***************************************************************************)
\* str.split(sep, 1)
SplitFirst(s, sep) ==
    IF Find(s, sep) = 0 THEN <<s>>
    ELSE <<SubSeq(s, 1, Find(s, sep) - 1), SubSeq(s, Find(s, sep) + Len(sep), Len(s))>>

\* p.strip().strip('"').strip("'")
Unquote(p) == StripChars(StripChars(Strip(p), {"\""}), {"'"})

\* does key=["']([^"']*)["'] match s at position i
QuotedStarAt(s, i, key) ==
    /\ StartsAt(s, i, key)
    /\ i + Len(key) <= Len(s)
    /\ Char(s, i + Len(key)) \in QuoteChars
    /\ i + Len(key) + 1 + NonQuoteRun(s, i + Len(key) + 1) <= Len(s)

\* re.search(key + r'["\']([^"\']*)["\']', s): the position of the match, 0 for None
SearchQuotedStar(s, key) ==
    IF \E i \in 1..Len(s) : QuotedStarAt(s, i, key)
      THEN CHOOSE i \in 1..Len(s) :
             QuotedStarAt(s, i, key) /\ \A j \in 1..(i - 1) : ~QuotedStarAt(s, j, key)
      ELSE 0

\* match.group(1) of that search
QuotedStarGroup(s, key) ==
    SubSeq(s, SearchQuotedStar(s, key) + Len(key) + 1,
           SearchQuotedStar(s, key) + Len(key) + NonQuoteRun(s, SearchQuotedStar(s, key) + Len(key) + 1))

\* match.group(1) of re.search(key + r'["\']([^"\']+)["\']', s) if it matches, else other
GroupOr(s, key, other) ==
    IF SearchQuoted(s, key) > 0 THEN QuotedGroup(s, key) ELSE other

\* datetime.fromisoformat for YYYY-MM-DD, YYYY-MM-DD?HH:MM and YYYY-MM-DD?HH:MM:SS:
\* [ok, minutes]; minutes count from 1970-01-01T00:00, ok = FALSE is ValueError
NoDateTime == [ok |-> FALSE, minutes |-> 0]

fromisoformat_date(d) ==
    IF /\ Len(d) = 10 /\ Char(d, 5) = "-" /\ Char(d, 8) = "-"
       /\ IsDigit(SubSeq(d, 1, 4)) /\ IsDigit(SubSeq(d, 6, 7)) /\ IsDigit(SubSeq(d, 9, 10))
       /\ ValidDate(ToInt(SubSeq(d, 1, 4)), ToInt(SubSeq(d, 6, 7)), ToInt(SubSeq(d, 9, 10)))
      THEN [ok |-> TRUE,
            minutes |-> 1440 * DayNumber(ToInt(SubSeq(d, 1, 4)), ToInt(SubSeq(d, 6, 7)),
                                         ToInt(SubSeq(d, 9, 10)))]
      ELSE NoDateTime

fromisoformat_time(t) ==
    IF /\ Len(t) \in {5, 8} /\ Char(t, 3) = ":"
       /\ IsDigit(SubSeq(t, 1, 2)) /\ IsDigit(SubSeq(t, 4, 5))
       /\ ToInt(SubSeq(t, 1, 2)) <= 23 /\ ToInt(SubSeq(t, 4, 5)) <= 59
       /\ Len(t) = 8 => (Char(t, 6) = ":" /\ IsDigit(SubSeq(t, 7, 8)) /\ ToInt(SubSeq(t, 7, 8)) <= 59)
      THEN [ok |-> TRUE, minutes |-> 60 * ToInt(SubSeq(t, 1, 2)) + ToInt(SubSeq(t, 4, 5))]
      ELSE NoDateTime

fromisoformat_parts(date, time) ==
    IF date.ok /\ time.ok THEN [ok |-> TRUE, minutes |-> date.minutes + time.minutes]
    ELSE NoDateTime

fromisoformat(s) ==
    IF Len(s) = 10 THEN fromisoformat_date(s)
    ELSE IF Len(s) > 11
      THEN fromisoformat_parts(fromisoformat_date(SubSeq(s, 1, 10)),
                               fromisoformat_time(SubSeq(s, 12, Len(s))))
    ELSE NoDateTime

\* datetime.isoformat() of a time with zero seconds
isoformat(minutes) ==
    strftime_date(minutes \div 1440) \o "T" \o Pad2((minutes % 1440) \div 60) \o ":"
      \o Pad2(minutes % 60) \o ":00"

\* what json.load says of a corrupt users/<id>/calendar.json
JSONDecodeError == "Expecting value: line 1 column 1 (char 0)"

\* an outcome of a backend call: a value, or an exception with its message
Returns(v) == [threw |-> FALSE, value |-> v, msg |-> ""]
Raises(m) == [threw |-> TRUE, value |-> FALSE, msg |-> m]

\* events().list(timeMin, timeMax) of the Google Calendar service: the events
\* that overlap [lo, hi)
google_events_between(lo, hi) ==
    SelectSeq(calendar.events,
              LAMBDA e : fromisoformat(e[2]).minutes > lo /\ fromisoformat(e[1]).minutes < hi)

\* CalendarClient._is_free_google: "Assume free on error"
is_free_google(date_iso, duration_minutes) ==
    IF ~fromisoformat(date_iso).ok \/ Failing THEN Returns(TRUE)
    ELSE Returns(google_events_between(fromisoformat(date_iso).minutes,
                                       fromisoformat(date_iso).minutes + duration_minutes) = <<>>)

\* CalendarClient.is_free over the JSON store: busy when an event starts or ends that day
is_free_local(day) ==
    IF Failing THEN Raises(JSONDecodeError)
    ELSE Returns(\A i \in 1..Len(calendar.events) :
                    ~StartsAt(calendar.events[i][1], 1, day) /\ ~StartsAt(calendar.events[i][2], 1, day))

\* CalendarClient.is_free
is_free(date_iso) ==
    IF calendar.google THEN is_free_google(date_iso, 60)
    ELSE is_free_local(Split(date_iso, "T")[1])

\* mutant of check_availability_comma: the two parts are used as they are split
check_availability_comma_raw(user_id, date_iso) ==
    IF user_id # "" /\ Contains(user_id, ",") /\ date_iso = ""
      THEN <<SplitFirst(user_id, ",")[1], SplitFirst(user_id, ",")[2]>>
      ELSE <<user_id, date_iso>>

\* check_availability, comma-separated form: "me", "2025-12-03T18:00:00"
check_availability_comma(user_id, date_iso) ==
    IF user_id # "" /\ Contains(user_id, ",") /\ date_iso = ""
      THEN <<Unquote(SplitFirst(user_id, ",")[1]), Unquote(SplitFirst(user_id, ",")[2])>>
      ELSE <<user_id, date_iso>>

\* check_availability, key=value form, tried on what the comma form left
check_availability_key_value(user_id, date_iso) ==
    IF user_id # "" /\ Contains(user_id, "date_iso=") /\ date_iso = ""
      THEN <<GroupOr(user_id, "user_id=", ""), GroupOr(user_id, "date_iso=", date_iso)>>
      ELSE <<user_id, date_iso>>

\* the parameters of check_availability after both recoveries
check_availability_fields(user_id, date_iso) ==
    check_availability_key_value(check_availability_comma(user_id, date_iso)[1],
                                 check_availability_comma(user_id, date_iso)[2])

\* "Use user_id from calendar client if not provided"
default_user(user_id) == IF Strip(user_id) = "" THEN "me" ELSE user_id

\* the answer of check_availability on the outcome r of is_free
check_availability_answer(user_id, date_iso, r) ==
    IF r.threw
      THEN "Error checking availability: " \o r.msg
             \o ". Make sure date_iso is in correct ISO format (YYYY-MM-DDTHH:MM:SS)"
      ELSE user_id \o " is " \o (IF r.value THEN "free" ELSE "busy") \o " on "
             \o Split(date_iso, "T")[1]

date_iso_required ==
    "Error: date_iso parameter is required. Provide date in ISO format like '2025-11-15T14:00:00'"

\* the tool check_availability on the recovered parameters f
check_availability_on(f) ==
    /\ fields' = <<default_user(f[1]), f[2]>>
    /\ IF Strip(f[2]) = ""
         THEN ret' = date_iso_required /\ backend' = backend
         ELSE /\ ret' = check_availability_answer(default_user(f[1]), f[2], is_free(f[2]))
              /\ backend' = Append(backend, [fn |-> "is_free", args |-> <<f[2]>>])

\* the agent loop runs the tool check_availability
check_availability ==
    /\ tool = "check_availability" /\ ~done
    /\ done' = TRUE /\ threw' = FALSE
    /\ check_availability_on(check_availability_fields(args[1], args[2]))
    /\ UNCHANGED <<tool, args, fault, calendar, clients>>
    /\ UNCHANGED <<memVars, turnVars, dateVars>>

(***************************************************************************)
(* CalendarClient.find_free_slots and the tool find_available_times.       *)
(***************************************************************************)
SlotLimit == 10     \* free_slots[:10]
ShownSlots == 5     \* slots[:5]

\* the start and end, in minutes, of events that parse
parsed_events(events) ==
    [i \in 1..Len(events) |->
        <<fromisoformat(events[i][1]).minutes, fromisoformat(events[i][2]).minutes>>]

\* busy_times: the parsed start and end of every event that parses
busy_times(events) ==
    parsed_events(SelectSeq(events, LAMBDA e : fromisoformat(e[1]).ok /\ fromisoformat(e[2]).ok))

\* "Check if this slot overlaps with any busy time"
slot_is_free(current, slot_end, busy) ==
    \A i \in 1..Len(busy) : slot_end <= busy[i][1] \/ current >= busy[i][2]

RECURSIVE free_slots_from(_, _, _, _)
\* the while loop of _find_free_slots_google, times in minutes
free_slots_from(current, end_dt, duration, busy) ==
    IF current >= end_dt THEN <<>>
    ELSE (IF slot_is_free(current, current + duration, busy) /\ current + duration <= end_dt
            THEN <<(<<isoformat(current), isoformat(current + duration)>>)>>
            ELSE <<>>)
         \o free_slots_from(current + 60, end_dt, duration, busy)

\* the slice s[:n]
FirstN(s, n) == SubSeq(s, 1, IF Len(s) < n THEN Len(s) ELSE n)

\* CalendarClient._find_free_slots_google: any exception gives the empty list
find_free_slots_google(start_date, end_date, duration) ==
    IF ~fromisoformat(start_date).ok \/ ~fromisoformat(end_date).ok THEN <<>>
    ELSE FirstN(free_slots_from(fromisoformat(start_date).minutes, fromisoformat(end_date).minutes,
                                duration,
                                IF Failing THEN <<>>
                                ELSE busy_times(google_events_between(fromisoformat(start_date).minutes,
                                                                      fromisoformat(end_date).minutes))),
                SlotLimit)

\* start_dt.replace(hour=h, minute=0), in minutes
replace_hour(minutes, h) == 1440 * (minutes \div 1440) + 60 * h

\* the fallback of find_free_slots: "return a few default time slots"
find_free_slots_default(start_date, duration) ==
    IF ~fromisoformat(start_date).ok THEN <<>>
    ELSE << <<isoformat(replace_hour(fromisoformat(start_date).minutes, 9)),
              isoformat(replace_hour(fromisoformat(start_date).minutes, 9) + duration)>>,
            <<isoformat(replace_hour(fromisoformat(start_date).minutes, 14)),
              isoformat(replace_hour(fromisoformat(start_date).minutes, 14) + duration)>> >>

\* CalendarClient.find_free_slots
find_free_slots(start_date, end_date, duration) ==
    IF calendar.google THEN find_free_slots_google(start_date, end_date, duration)
    ELSE find_free_slots_default(start_date, duration)

MonthTitles ==
    <<"January", "February", "March", "April", "May", "June", "July", "August",
      "September", "October", "November", "December">>

\* strftime('%I:%M %p') of a time in minutes
strftime_12h(minutes) ==
    Pad2(IF ((minutes % 1440) \div 60) % 12 = 0 THEN 12 ELSE ((minutes % 1440) \div 60) % 12)
      \o ":" \o Pad2(minutes % 60) \o " " \o (IF (minutes % 1440) \div 60 < 12 THEN "AM" ELSE "PM")

\* strftime('%A, %B %d at %I:%M %p') of a time in minutes
strftime_long(minutes) ==
    DayTitles[weekday(minutes \div 1440) + 1] \o ", "
      \o MonthTitles[CivilDate(minutes \div 1440).m] \o " " \o Pad2(CivilDate(minutes \div 1440).d)
      \o " at " \o strftime_12h(minutes)

RECURSIVE slot_lines(_)
\* one line per slot
slot_lines(slots) ==
    IF slots = <<>> THEN ""
    ELSE "- " \o strftime_long(fromisoformat(slots[1][1]).minutes) \o " to "
           \o strftime_12h(fromisoformat(slots[1][2]).minutes) \o "\n" \o slot_lines(Tail(slots))

\* the first regex group of r'(\d+)' found in s from position i on, "" for no match
RECURSIVE first_digits(_, _)
first_digits(s, i) ==
    IF i > Len(s) THEN ""
    ELSE IF IsDigitChar(Char(s, i))
      THEN Char(s, i) \o (IF i < Len(s) /\ IsDigitChar(Char(s, i + 1)) THEN first_digits(s, i + 1) ELSE "")
    ELSE first_digits(s, i + 1)

\* the length of the run of characters of s from position i on that are not in cs
RECURSIVE RunNotIn(_, _, _)
RunNotIn(s, i, cs) ==
    IF i > Len(s) \/ Char(s, i) \in cs THEN 0 ELSE 1 + RunNotIn(s, i + 1, cs)

\* where the group of key["']?([^"',\s]+)["']? starts when key is at position i
LooseFrom(s, i, key) ==
    IF i + Len(key) <= Len(s) /\ Char(s, i + Len(key)) \in QuoteChars
      THEN i + Len(key) + 1 ELSE i + Len(key)

LooseAt(s, i, key) ==
    StartsAt(s, i, key) /\ RunNotIn(s, LooseFrom(s, i, key), QuoteChars \cup WhiteSpace \cup {","}) >= 1

\* re.search(key + r'["\']?([^"\',\s]+)["\']?', s): the position of the match, 0 for None
SearchLoose(s, key) ==
    IF \E i \in 1..Len(s) : LooseAt(s, i, key)
      THEN CHOOSE i \in 1..Len(s) : LooseAt(s, i, key) /\ \A j \in 1..(i - 1) : ~LooseAt(s, j, key)
      ELSE 0

LooseGroupAt(s, from) ==
    SubSeq(s, from, from + RunNotIn(s, from, QuoteChars \cup WhiteSpace \cup {","}) - 1)

LooseGroup(s, key) == LooseGroupAt(s, LooseFrom(s, SearchLoose(s, key), key))

\* re.search(key + r'(\d+)', s): the position of the match, 0 for None
DigitsAt(s, i, key) ==
    StartsAt(s, i, key) /\ i + Len(key) <= Len(s) /\ IsDigitChar(Char(s, i + Len(key)))

SearchDigits(s, key) ==
    IF \E i \in 1..Len(s) : DigitsAt(s, i, key)
      THEN CHOOSE i \in 1..Len(s) : DigitsAt(s, i, key) /\ \A j \in 1..(i - 1) : ~DigitsAt(s, j, key)
      ELSE 0

\* find_available_times, key=value form in the first parameter
find_available_times_key_value(c, start_date, end_date, duration_minutes) ==
    <<GroupOr(c, "user_id=", c), GroupOr(c, "start_date=", start_date),
      GroupOr(c, "end_date=", end_date),
      IF SearchQuoted(c, "duration_minutes=") > 0 THEN QuotedGroup(c, "duration_minutes=")
      ELSE IF SearchDigits(c, "duration_minutes=") > 0
        THEN first_digits(c, SearchDigits(c, "duration_minutes=") + Len("duration_minutes="))
      ELSE duration_minutes>>

\* find_available_times, comma-separated form, on the unquoted parts
find_available_times_parts(parts, end_date, duration_minutes) ==
    IF Len(parts) >= 4 THEN <<parts[1], parts[2], parts[3], parts[4]>>
    ELSE IF Len(parts) >= 3 THEN <<parts[1], parts[2], parts[3], duration_minutes>>
    ELSE <<parts[1], parts[2], end_date, duration_minutes>>

\* [p.strip().strip('"').strip("'") for p in parts]
UnquoteAll(parts) == [i \in 1..Len(parts) |-> Unquote(parts[i])]

\* the recovery of find_available_times: key=value first, comma-separated else
find_available_times_recover(user_id, start_date, end_date, duration_minutes) ==
    IF /\ user_id # "" /\ Contains(user_id, "=")
       /\ Contains(user_id, "start_date=") \/ Contains(user_id, "end_date=")
      THEN find_available_times_key_value(user_id, start_date, end_date, duration_minutes)
    ELSE IF user_id # "" /\ Contains(user_id, ",") /\ start_date = ""
      THEN find_available_times_parts(UnquoteAll(Split(user_id, ",")), end_date, duration_minutes)
    ELSE <<user_id, start_date, end_date, duration_minutes>>

\* "Clean up any remaining malformed parameters": duration_minutes
clean_duration(d) ==
    IF d # "" /\ (Contains(d, "duration_minutes=") \/ ~IsDigit(Strip(d)))
      THEN (IF SearchLoose(d, "duration_minutes=") > 0 THEN LooseGroup(d, "duration_minutes=")
            ELSE IF first_digits(d, 1) # "" THEN first_digits(d, 1)
            ELSE d)
      ELSE d

\* the same for start_date and end_date, key being "start_date=" or "end_date="
clean_date(d, key) == IF d # "" /\ Contains(d, key) THEN GroupOr(d, key, d) ELSE d

\* the prefix "duration_minutes=" removed from the unquoted duration
strip_duration_unquoted(d) ==
    IF StartsAt(d, 1, "duration_minutes=") THEN Unquote(Replace(d, "duration_minutes=", "")) ELSE d

\* "Clean up duration_minutes - strip quotes and whitespace"
strip_duration(d) == IF d = "" THEN d ELSE strip_duration_unquoted(Unquote(d))

\* the parameters of find_available_times after recovery r and clean-up
find_available_times_clean(r) ==
    <<default_user(r[1]), clean_date(r[2], "start_date="), clean_date(r[3], "end_date="),
      strip_duration(clean_duration(r[4]))>>

find_available_times_fields(user_id, start_date, end_date, duration_minutes) ==
    find_available_times_clean(
        find_available_times_recover(user_id, start_date, end_date, duration_minutes))

\* "Ensure duration_minutes is a valid integer string"
duration_of(d) == IF d = "" \/ ~IsDigit(Strip(d)) THEN 60 ELSE ToInt(Strip(d))

\* the error for an empty start_date (which = "start_date") or end_date
date_required(which, f) ==
    "Error: " \o which \o " is REQUIRED but received empty value. Received parameters: user_id='"
      \o f[1] \o "', start_date='" \o f[2] \o "', end_date='" \o f[3]
      \o "'. Make sure to pass " \o which \o " as a separate parameter, not as part of a string."

\* the answer of find_available_times for the slots the backend found
find_available_times_answer(f, slots) ==
    IF slots = <<>>
      THEN "No available time slots found for " \o f[1] \o " between " \o f[2] \o " and "
             \o f[3] \o "."
      ELSE "Available time slots for " \o f[1] \o ":\n"
             \o slot_lines(FirstN(slots, ShownSlots))

\* mutant of find_available_times_on: only start_date is required
find_available_times_on_start_only(f) ==
    /\ fields' = f
    /\ IF Strip(f[2]) = ""
         THEN ret' = date_required("start_date", f) /\ backend' = backend
       ELSE /\ ret' = find_available_times_answer(f, find_free_slots(f[2], f[3], duration_of(f[4])))
            /\ backend' = Append(backend, [fn |-> "find_free_slots",
                                           args |-> <<f[2], f[3], duration_of(f[4])>>])

\* the tool find_available_times on the cleaned parameters f
find_available_times_on(f) ==
    /\ fields' = f
    /\ IF Strip(f[2]) = ""
         THEN ret' = date_required("start_date", f) /\ backend' = backend
       ELSE IF Strip(f[3]) = ""
         THEN ret' = date_required("end_date", f) /\ backend' = backend
       ELSE /\ ret' = find_available_times_answer(f, find_free_slots(f[2], f[3], duration_of(f[4])))
            /\ backend' = Append(backend, [fn |-> "find_free_slots",
                                           args |-> <<f[2], f[3], duration_of(f[4])>>])

\* the agent loop runs the tool find_available_times
find_available_times ==
    /\ tool = "find_available_times" /\ ~done
    /\ done' = TRUE /\ threw' = FALSE
    /\ find_available_times_on(find_available_times_fields(args[1], args[2], args[3], args[4]))
    /\ UNCHANGED <<tool, args, fault, calendar, clients>>
    /\ UNCHANGED <<memVars, turnVars, dateVars>>

(***************************************************************************)
(* The tool create_calendar_event.                                         *)
(***************************************************************************)
\* json.loads of a flat object whose keys and values are strings without
\* escapes: [ok, pairs]; ok = FALSE is JSONDecodeError
JsonError == [ok |-> FALSE, pairs |-> <<>>]

\* the position of the first non-blank character of s from i on
JsonSkip(s, i) == i + (Len(SubSeq(s, i, Len(s))) - Len(LStrip(SubSeq(s, i, Len(s)), WhiteSpace)))

\* is there a string "..." at position i of s
JsonStringAt(s, i) ==
    /\ i <= Len(s) /\ Char(s, i) = "\""
    /\ i + 1 + RunNotIn(s, i + 1, {"\"", "\\"}) <= Len(s)
    /\ Char(s, i + 1 + RunNotIn(s, i + 1, {"\"", "\\"})) = "\""

JsonStringValue(s, i) == SubSeq(s, i + 1, i + RunNotIn(s, i + 1, {"\"", "\\"}))
JsonStringEnd(s, i) == i + 2 + RunNotIn(s, i + 1, {"\"", "\\"})

RECURSIVE JsonPairs(_, _, _)
RECURSIVE JsonAfterKey(_, _, _, _)
RECURSIVE JsonAfterValue(_, _, _)
\* the pairs of the object from the key at position i on; acc holds those read
JsonPairs(s, i, acc) ==
    IF ~JsonStringAt(s, i) THEN JsonError
    ELSE JsonAfterKey(s, JsonStringValue(s, i), JsonSkip(s, JsonStringEnd(s, i)), acc)

JsonAfterKey(s, key, i, acc) ==
    IF i > Len(s) \/ Char(s, i) # ":" \/ ~JsonStringAt(s, JsonSkip(s, i + 1)) THEN JsonError
    ELSE JsonAfterValue(s, JsonSkip(s, JsonStringEnd(s, JsonSkip(s, i + 1))),
                        Append(acc, <<key, JsonStringValue(s, JsonSkip(s, i + 1))>>))

JsonAfterValue(s, i, acc) ==
    IF i > Len(s) THEN JsonError
    ELSE IF Char(s, i) = "," THEN JsonPairs(s, JsonSkip(s, i + 1), acc)
    ELSE IF Char(s, i) = "}" /\ JsonSkip(s, i + 1) > Len(s) THEN [ok |-> TRUE, pairs |-> acc]
    ELSE JsonError

json_object_from(s, i) ==
    IF i > Len(s) \/ Char(s, i) # "{" THEN JsonError
    ELSE IF JsonSkip(s, i + 1) <= Len(s) /\ Char(s, JsonSkip(s, i + 1)) = "}"
      THEN (IF JsonSkip(s, JsonSkip(s, i + 1) + 1) > Len(s) THEN [ok |-> TRUE, pairs |-> <<>>]
            ELSE JsonError)
    ELSE JsonPairs(s, JsonSkip(s, i + 1), <<>>)

json_loads(s) == json_object_from(s, JsonSkip(s, 1))

RECURSIVE params_get(_, _, _)
\* params.get(key, default): the last pair of that key counts
params_get(pairs, key, default) ==
    IF pairs = <<>> THEN default
    ELSE IF pairs[Len(pairs)][1] = key THEN pairs[Len(pairs)][2]
    ELSE params_get(SubSeq(pairs, 1, Len(pairs) - 1), key, default)

\* match.group(1) of re.search(key + r'["\']([^"\']*)["\']', s) if it matches, else other
StarGroupOr(s, key, other) ==
    IF SearchQuotedStar(s, key) > 0 THEN QuotedStarGroup(s, key) ELSE other

\* create_calendar_event, key=value form: "checked before comma-separated"
create_event_key_value(u, f) ==
    <<GroupOr(u, "user_id=", ""), GroupOr(u, "title=", f[2]), GroupOr(u, "start_iso=", f[3]),
      GroupOr(u, "end_iso=", f[4]), StarGroupOr(u, "description=", f[5]),
      StarGroupOr(u, "location=", f[6])>>

\* create_calendar_event, comma-separated form, on the unquoted parts
create_event_parts(parts, f) ==
    IF Len(parts) >= 4
      THEN <<parts[1], parts[2], parts[3], parts[4],
             IF Len(parts) >= 5 THEN parts[5] ELSE f[5],
             IF Len(parts) >= 6 THEN parts[6] ELSE f[6]>>
      ELSE f

\* create_calendar_event, JSON form, on the outcome of json.loads
create_event_json(params, f) ==
    IF params.ok
      THEN <<params_get(params.pairs, "user_id", ""), params_get(params.pairs, "title", ""),
             params_get(params.pairs, "start_iso", ""), params_get(params.pairs, "end_iso", ""),
             params_get(params.pairs, "description", ""), params_get(params.pairs, "location", "")>>
      ELSE f

\* the if / elif / elif of create_calendar_event on its parameters f
create_event_recover(f) ==
    IF /\ f[1] # "" /\ Contains(f[1], "=") /\ f[2] = ""
       /\ Contains(f[1], "title=") \/ Contains(f[1], "start_iso=") \/ Contains(f[1], "end_iso=")
      THEN create_event_key_value(f[1], f)
    ELSE IF f[1] # "" /\ Contains(f[1], ",") /\ f[2] = "" /\ ~Contains(f[1], "=")
      THEN create_event_parts(UnquoteAll(Split(f[1], ",")), f)
    ELSE IF f[1] # "" /\ StartsAt(Strip(f[1]), 1, "{") /\ f[2] = ""
      THEN create_event_json(json_loads(f[1]), f)
    ELSE f

\* "Legacy regex parsing (shouldn't be needed anymore but kept for safety)"
create_event_legacy(f) ==
    IF f[1] # "" /\ (Contains(f[1], "title=") \/ Contains(f[1], "start_iso=")) /\ f[2] = ""
      THEN <<GroupOr(f[1], "user_id=", ""), GroupOr(f[1], "title=", f[2]),
             GroupOr(f[1], "start_iso=", f[3]), GroupOr(f[1], "end_iso=", f[4]),
             GroupOr(f[1], "description=", f[5]), GroupOr(f[1], "location=", f[6])>>
      ELSE f

\* "Use user_id from calendar client if not provided"
create_event_user(f) == <<default_user(f[1]), f[2], f[3], f[4], f[5], f[6]>>

\* the parameters of create_calendar_event after recovery
create_event_fields(f) == create_event_user(create_event_legacy(create_event_recover(f)))

RecursionError == "maximum recursion depth exceeded"

\* CalendarClient.create_event: the Google branch gives the event id, or None
\* ("") when the service fails; the JSON-store branch calls add_event, which
\* calls create_event again, until the interpreter stops the recursion
\* (events().insert refuses a start or end that is no date-time)
create_event(start_iso, end_iso) ==
    IF calendar.google
      THEN Returns(IF Failing \/ ~fromisoformat(start_iso).ok \/ ~fromisoformat(end_iso).ok
                     THEN "" ELSE "google_event")
    ELSE Raises(RecursionError)

\* the answer of create_calendar_event on the outcome r of create_event
create_event_answer(f, r) ==
    IF r.threw THEN "Error creating calendar event: " \o r.msg
    ELSE IF r.value # ""
      THEN "Event '" \o f[2] \o "' created successfully for " \o f[1] \o " on "
             \o Split(f[3], "T")[1] \o ". Event ID: " \o r.value
    ELSE "Failed to create event '" \o f[2] \o "' for " \o f[1] \o "."

\* the tool create_calendar_event on the recovered parameters f
create_calendar_event_on(f) ==
    /\ fields' = f
    /\ ret' = create_event_answer(f, create_event(f[3], f[4]))
    /\ backend' = Append(backend, [fn |-> "create_event",
                                   args |-> <<f[2], f[3], f[4], f[5], f[6]>>])

\* the agent loop runs the tool create_calendar_event
create_calendar_event ==
    /\ tool = "create_calendar_event" /\ ~done
    /\ done' = TRUE /\ threw' = FALSE
    /\ create_calendar_event_on(create_event_fields(args))
    /\ UNCHANGED <<tool, args, fault, calendar, clients>>
    /\ UNCHANGED <<memVars, turnVars, dateVars>>

(***************************************************************************)
(* The webhook tool, src/agent/tools/n8n_client.py, and the weather tool,  *)
(* src/agent/tools/weather.py.                                             *)
(***************************************************************************)
\* what the webhook answers, as N8NClient.trigger returns it
WebhookReply == "{'ok': True}"

\* the agent loop runs the tool trigger_n8n; the call of N8NClient.trigger
\* stands outside the try, so what raise_for_status raises leaves the tool
trigger_n8n ==
    /\ tool = "trigger_n8n" /\ ~done
    /\ done' = TRUE
    /\ fields' = args
    /\ IF "n8n" \notin clients
         THEN ret' = "n8n client not configured." /\ threw' = FALSE /\ backend' = backend
         ELSE IF ~json_loads(args[1]).ok
           THEN ret' = "Invalid JSON." /\ threw' = FALSE /\ backend' = backend
         ELSE /\ backend' = Append(backend, [fn |-> "trigger", args |-> args])
              /\ threw' = Failing
              /\ ret' = IF Failing THEN fault ELSE "n8n response: " \o WebhookReply
    /\ UNCHANGED <<tool, args, fault, calendar, clients>>
    /\ UNCHANGED <<memVars, turnVars, dateVars>>

\* the conditions OpenWeatherMap reports, as check_weather formats them
WeatherReply == "clear sky, 21.5°C"

\* e.response.status_code == 404 of the HTTPError raised by raise_for_status
NotFound == "404 Client Error: Not Found"

\* the answer of check_weather, from the except clauses when get_weather raises
check_weather_answer(location) ==
    IF fault = NotFound
      THEN "Could not find weather for '" \o location
             \o "'. Try using just the city name (e.g., 'Hockessin') or city with country code like 'Hockessin,US'."
    ELSE IF Failing THEN "Error getting weather: " \o fault
    ELSE "Weather in " \o location \o ": " \o WeatherReply

\* the agent loop runs the tool check_weather
check_weather ==
    /\ tool = "check_weather" /\ ~done
    /\ done' = TRUE /\ threw' = FALSE
    /\ fields' = <<Strip(SplitFirst(args[1], ",")[1])>>
                   \o (IF Contains(args[1], ",") THEN <<Strip(SplitFirst(args[1], ",")[2])>> ELSE <<>>)
    /\ IF "weather" \notin clients
         THEN ret' = "Weather client not configured." /\ backend' = backend
         ELSE /\ ret' = check_weather_answer(args[1])
              /\ backend' = Append(backend, [fn |-> "get_weather", args |-> fields'])
    /\ UNCHANGED <<tool, args, fault, calendar, clients>>
    /\ UNCHANGED <<memVars, turnVars, dateVars>>

(***************************************************************************)
(* One call of a tool by the agent loop, on the argument strings the       *)
(* language model may hand over (SpecTools).                               *)
(***************************************************************************)
Evening == "2025-12-03T18:00:00"
Night   == "2025-12-03T20:00:00"
Morning == "2025-12-03T09:00:00"
Midday  == "2025-12-03T12:00:00"

CheckAvailabilityArgs ==
    {<<"me", Evening>>, <<"", Evening>>, <<"me", "">>, <<"", "">>, <<"me", "  ">>,
     <<"me", "2025-12-03">>, <<"me", "next friday">>,
     <<"user_id=\"me\", date_iso=\"2025-12-03T18:00:00\"", "">>,
     <<"user_id='anisha', date_iso='2025-12-03T18:00:00'", "">>,
     <<"date_iso=\"2025-12-03T18:00:00\"", "">>,
     <<"user_id=\"me\" date_iso=\"2025-12-03T18:00:00\"", "">>,
     <<"me, \"2025-12-03T18:00:00\"", "">>,
     <<"\"me\", \"2025-12-03T18:00:00\"", "">>,
     <<"'anisha' , '2025-12-03T09:00:00'", "">>,
     <<"me,2025-12-03T18:00:00", "">>,
     <<"me, ", "">>,
     <<"me, 2025-12-03T18:00:00", Evening>>}

FindAvailableTimesArgs ==
    {<<"me", Morning, Midday, "60">>, <<"me", Morning, Midday, "30">>,
     <<"", Morning, Midday, "60">>,
     <<"me", "", Midday, "60">>, <<"me", Morning, "", "60">>, <<"", "", "", "">>,
     <<"me", "  ", Midday, "60">>, <<"me", Morning, " ", "60">>,
     <<"me", Morning, Midday, "duration_minutes=30">>,
     <<"me", Morning, Midday, "about an hour">>,
     <<"me", "start_date=\"2025-12-03T09:00:00\"", "end_date=\"2025-12-03T12:00:00\"", "60">>,
     <<"me", "2025-12-03T08:00:00", "2025-12-03T19:00:00", "60">>,
     <<"me", Midday, Morning, "60">>,
     <<"me", "tomorrow", "friday", "60">>,
     <<"user_id=\"me\", start_date=\"2025-12-03T09:00:00\", end_date=\"2025-12-03T12:00:00\", duration_minutes=\"60\"",
       "", "", "60">>,
     <<"user_id=\"me\", end_date=\"2025-12-03T12:00:00\"", "", "", "60">>,
     <<"user_id=\"me\", start_date=\"2025-12-03T09:00:00\"", "", "", "60">>,
     <<"user_id=\"me\", duration_minutes=\"30\"", "", "", "60">>,
     <<"\"me\", \"2025-12-03T09:00:00\", \"2025-12-03T12:00:00\", \"60\"", "", "", "60">>,
     <<"me, 2025-12-03T09:00:00", "", "", "60">>,
     <<"me, , 2025-12-03T12:00:00", "", "", "60">>}

DinnerJson ==
    "{\"user_id\": \"me\", \"title\": \"Dinner\", \"start_iso\": \"2025-12-03T18:00:00\", \"end_iso\": \"2025-12-03T20:00:00\", \"description\": \"Thai\", \"location\": \"Main St\"}"

LunchJson ==
    "{\"user_id\": \"me\", \"title\": \"Lunch\", \"start_iso\": \"2025-12-03T12:00:00\", \"end_iso\": \"2025-12-03T13:00:00\", \"description\": \"\", \"location\": \"\"}"

CreateCalendarEventArgs ==
    {<<"me", "Dinner", Evening, Night, "Thai", "Main St">>,
     <<LunchJson, "", "", "", "", "">>,
     <<"", "Dinner", Evening, Night, "", "">>,
     <<"me", "", "", "", "", "">>,
     <<"", "", "", "", "", "">>,
     <<DinnerJson, "", "", "", "", "">>,
     <<"{\"title\": \"Dinner\"}", "", "", "", "", "">>,
     <<"{\"title\": \"a=b\", \"start_iso\": \"2025-12-03T18:00:00\", \"end_iso\": \"2025-12-03T20:00:00\"}",
       "", "", "", "", "">>,
     <<"{\"title\": \"Dinner\"", "", "", "", "", "">>,
     <<"{}", "", "", "", "", "">>,
     <<"user_id=\"me\", title=\"Dinner\", start_iso=\"2025-12-03T18:00:00\", end_iso=\"2025-12-03T20:00:00\", description=\"Thai\", location=\"Main St\"",
       "", "", "", "", "">>,
     <<"title=\"Dinner\", start_iso=\"2025-12-03T18:00:00\", end_iso=\"2025-12-03T20:00:00\"",
       "", "", "", "", "">>,
     <<"user_id=\"me\", description=\"Thai\"", "", "", "", "", "">>,
     <<"\"me\", \"Dinner\", \"2025-12-03T18:00:00\", \"2025-12-03T20:00:00\", \"Thai\", \"Main St\"",
       "", "", "", "", "">>,
     <<"me, Dinner, 2025-12-03T18:00:00, 2025-12-03T20:00:00", "", "", "", "", "">>,
     <<"me, Dinner", "", "", "", "", "">>}

TriggerArgs == {<<"{\"event\": \"hike\"}">>, <<"{}">>, <<" {\"a\": \"b\", \"c\": \"d\"} ">>,
                <<"not json">>, <<"">>, <<"{\"event\": ">>}

CheckWeatherArgs == {<<"Wilmington">>, <<"Wilmington,US">>, <<" Hockessin , DE">>, <<"">>}

ToolCalls ==
    ({"check_availability"} \X CheckAvailabilityArgs)
      \cup ({"find_available_times"} \X FindAvailableTimesArgs)
      \cup ({"create_calendar_event"} \X CreateCalendarEventArgs)
      \cup ({"trigger_n8n"} \X TriggerArgs)
      \cup ({"check_weather"} \X CheckWeatherArgs)

\* what raise_for_status, the Google service or the JSON store may raise
Faults == {"", "503 Server Error: Service Unavailable", NotFound}

\* the events of the calendar: none, or one that keeps 09:00 to 10:00 busy
Calendars ==
    {[google |-> g, events |-> ev] :
       g \in BOOLEAN, ev \in {<<>>, <<<<Morning, "2025-12-03T10:00:00">>>>,
                              <<<<Evening, Night>>>>}}

InitTools ==
    /\ MemIdle
    /\ TurnIdle
    /\ DateIdle
    /\ \E c \in ToolCalls : tool = c[1] /\ args = c[2]
    /\ done = FALSE /\ threw = FALSE /\ ret = "" /\ fields = <<>> /\ backend = <<>>
    /\ fault \in Faults
    /\ calendar \in Calendars
    /\ clients \in {{}, {"weather", "n8n"}}

NextTools ==
    \/ check_availability
    \/ find_available_times
    \/ create_calendar_event
    \/ trigger_n8n
    \/ check_weather

SpecTools == InitTools /\ [][NextTools]_vars

(***************************************************************************)
(* One call of CalendarClient.find_free_slots (SpecSlots).                 *)
(***************************************************************************)
MaxDuration == 90

RangeStarts == {Morning, "2025-12-03T08:00:00", "2025-12-03T09:30", "tomorrow"}
RangeEnds == {Midday, "2025-12-03T19:00:00", "2025-12-03T09:00:00", "2025-12-04"}
Durations == {30, 60, MaxDuration}

InitSlots ==
    /\ MemIdle
    /\ TurnIdle
    /\ DateIdle
    /\ tool = "find_free_slots"
    /\ \E s \in RangeStarts, e \in RangeEnds, d \in Durations : args = <<s, e, d>>
    /\ done = FALSE /\ threw = FALSE /\ ret = "" /\ fields = <<>> /\ backend = <<>>
    /\ fault \in {"", "503 Server Error: Service Unavailable"}
    /\ calendar \in Calendars
    /\ clients = {}

\* find_available_times calls find_free_slots(start_date, end_date, duration)
FindFreeSlotsCall ==
    /\ tool = "find_free_slots" /\ ~done
    /\ done' = TRUE
    /\ ret' = find_free_slots(args[1], args[2], args[3])
    /\ UNCHANGED <<tool, args, threw, fields, backend, fault, calendar, clients>>
    /\ UNCHANGED <<memVars, turnVars, dateVars>>

NextSlots == FindFreeSlotsCall

SpecSlots == InitSlots /\ [][NextSlots]_vars

(***************************************************************************)
(* run_task called with a memory that get_memory(user_id, window_size)     *)
(* made (SpecRun): src/agent/coordinator.py.                               *)
(***************************************************************************)
PromptWindow == 10  \* messages[-10:], "Show last 10 messages for context"

\* build_agent: the messages of the memory shown as "Previous conversation"
chat_history(messages) == PySuffix(messages, PromptWindow)

\* run_task: memory.chat_memory.add_user_message(user_prompt)
with_user_message(messages, id) == Append(messages, [role |-> "user", content |-> id])

\* run_task: memory.chat_memory.add_ai_message(output), reached only when
\* agent.invoke returned
with_ai_message(messages, id, outcome) ==
    IF outcome = "output" THEN Append(messages, [role |-> "assistant", content |-> id])
    ELSE messages

\* run_task(ctx, user_prompt, memory): agent.invoke gives an output or raises
\* one of Failures
run_task(outcome) ==
    /\ memLive
    /\ turns < MaxTurns
    /\ turns' = turns + 1
    /\ history' = chat_history(with_user_message(mem, nextId))
    /\ mem' = with_ai_message(with_user_message(mem, nextId), nextId + 1, outcome)
    /\ nextId' = nextId + (IF outcome = "output" THEN 2 ELSE 1)
    /\ lastResult' = IF outcome = "output" THEN "tuple" ELSE "str"
    /\ UNCHANGED <<pc, entry, iter, session, pending, createCalls>>
    /\ UNCHANGED <<store, file, memLive, winSize, capM, appended, now, saved, lastOp>>
    /\ UNCHANGED <<dateVars, toolVars>>

\* the store holds the n messages of earlier turns and the caller holds the
\* memory get_memory(user_id, window_size) made of them
InitRun ==
    /\ winSize \in WindowSizes
    /\ capM = MaxCap
    /\ \E n \in 0..MaxStored :
        /\ store = IF n = 0 THEN "missing" ELSE "valid"
        /\ file = all_messages(<<>>, Exchange(n), capM, 0)
        /\ saved = Exchange(n)
        /\ nextId = n + 1
        /\ mem = loaded_messages(file, winSize)
    /\ memLive = TRUE
    /\ appended = 0
    /\ now = 1
    /\ lastOp = [op |-> "get_memory", before |-> store, raised |-> FALSE]
    /\ TurnIdle
    /\ DateIdle
    /\ ToolIdle

NextRun == \E outcome \in {"output"} \cup Failures : run_task(outcome)

SpecRun == InitRun /\ [][NextRun]_vars

(***************************************************************************)
(* Claims about the conversation store (checked under Spec).               *)
(***************************************************************************)
Min(a, b) == IF a <= b THEN a ELSE b

\* role and content of stored entries, without their timestamps
Plain(s) == [i \in 1..Len(s) |-> [role |-> s[i].role, content |-> s[i].content]]

\* the last k elements of s, for 0 <= k <= Len(s)
LastK(s, k) == [i \in 1..k |-> s[Len(s) - k + i]]

IsPrefix(s, t) == Len(s) <= Len(t) /\ \A i \in 1..Len(s) : s[i] = t[i]

C4_WindowIsMostRecent ==
    (store = "valid" /\ capM >= winSize)
        => loaded_messages(file, winSize) = LastK(saved, Min(winSize, Len(saved)))

\* C5: no message appears twice in the persisted sequence.
C5_NoDuplicates ==
    \A i, j \in 1..Len(file) : i < j => file[i].content # file[j].content

\* C6: while everything ever saved fits within the cap, a save only appends:
\* the sequence persisted before it is a prefix of the sequence persisted after.
C6_AppendOnly ==
    [][(lastOp'.op = "save_memory" /\ now' = now + 1 /\ Len(saved') <= capM)
          => IsPrefix(Plain(file), Plain(file'))]_vars

\* C7: get_memory(window_size = W), W >= 1, on a history of n messages loads
\* the last min(n, W) of them, in persisted order, with role and content kept.
C7_LoadsLastWindow ==
    (lastOp.op = "get_memory" /\ ~lastOp.raised)
        => mem = LastK(Plain(file), Min(Len(file), winSize))

\* C7 witness: a load from a history longer than the window.
C7_Witness ==
    /\ lastOp.op = "get_memory" /\ ~lastOp.raised
    /\ Len(file) > winSize
    /\ Len(mem) = winSize

\* C8: on a missing or corrupt store get_memory returns an empty memory and
\* save_memory writes the memory's messages as the whole history; neither raises.
C8_StoreNeverFatal ==
    (lastOp.op \in {"get_memory", "save_memory"} /\ lastOp.before \in {"missing", "corrupt"})
        => /\ ~lastOp.raised
           /\ lastOp.op = "get_memory" => mem = <<>>
           /\ lastOp.op = "save_memory" =>
                 Plain(file) = trimmed_messages(mem, capM)

(***************************************************************************)
(* Claims about parse_date (checked under SpecDate).                       *)
(***************************************************************************)
\* the offset the rule gives for weekday index d (Monday = 0), modifier index m
\* (3 is "next") and today's weekday cur
RuleOffset(d, m, cur) ==
    LET delta == d - cur
    IN  IF delta < 0 THEN delta + 7
        ELSE IF delta = 0 THEN (IF m = 3 THEN 7 ELSE 0)
        ELSE (IF m = 3 THEN delta + 7 ELSE delta)

\* the day number of the date a result starts with
ResultDay(out) ==
    DayNumber(ToInt(SubSeq(out, 1, 4)), ToInt(SubSeq(out, 6, 7)), ToInt(SubSeq(out, 9, 10)))

\* C9: for every weekday name, modifier and current weekday the result is a
\* date on that weekday, at the offset the modifier rule gives; on Wednesday
\* 2025-11-19, parse_date('Friday', '18:00:00') is '2025-11-21T18:00:00'.
C9_WeekdayRule ==
    /\ \A m \in 1..3, d \in 1..7 :
          (pdOut # "" /\ pdDesc = WeekdayDesc(m, d))
              => /\ Len(pdOut) >= 11 /\ Char(pdOut, 11) = "T"
                 /\ IsDigit(Replace(SubSeq(pdOut, 1, 10), "-", ""))
                 /\ ResultDay(pdOut) = today + RuleOffset(d - 1, m, weekday(today))
                 /\ weekday(ResultDay(pdOut)) = d - 1
    /\ (pdOut # "" /\ today = DayNumber(2025, 11, 19) /\ pdDesc = "Friday" /\ pdTime = "18:00:00")
          => (weekday(today) = 2 /\ pdOut = "2025-11-21T18:00:00")

\* C9 witness: "next Friday" asked on a Wednesday has been resolved
C9_Witness ==
    /\ pdOut # "" /\ pdDesc = "next Friday" /\ weekday(today) = 2
    /\ ResultDay(pdOut) = today + 9

IsError(out) == StartsAt(out, 1, "Error")

\* YYYY-MM-DDTHH:MM:SS with hour 0-23, minute 0-59, second 0-59
WellFormedTimestamp(out) ==
    /\ Len(out) = 19
    /\ \A i \in {1, 2, 3, 4, 6, 7, 9, 10, 12, 13, 15, 16, 18, 19} : IsDigitChar(Char(out, i))
    /\ Char(out, 5) = "-" /\ Char(out, 8) = "-" /\ Char(out, 11) = "T"
    /\ Char(out, 14) = ":" /\ Char(out, 17) = ":"
    /\ ToInt(SubSeq(out, 12, 13)) <= 23
    /\ ToInt(SubSeq(out, 15, 16)) <= 59
    /\ ToInt(SubSeq(out, 18, 19)) <= 59

\* C10: every non-error result of parse_date is a timestamp YYYY-MM-DDTHH:MM:SS
\* with a zero-padded 24-hour time.
C10_ResultIsTimestamp ==
    (pdOut # "" /\ ~IsError(pdOut)) => WellFormedTimestamp(pdOut)

\* a well-formed explicit ISO timestamp with seconds, of a date that exists
IsoDateTime(s) ==
    /\ WellFormedTimestamp(s)
    /\ ValidDate(ToInt(SubSeq(s, 1, 4)), ToInt(SubSeq(s, 6, 7)), ToInt(SubSeq(s, 9, 10)))

\* the same without the seconds: YYYY-MM-DDTHH:MM
IsoNoSeconds(s) == Len(s) = 16 /\ IsoDateTime(s \o ":00")

\* C11: round trip: a well-formed explicit ISO input, with seconds or without,
\* is returned unchanged for every default_time, apart from ":00" appended
\* when the seconds are absent.
C11_IsoRoundTrip ==
    pdOut # "" =>
        /\ IsoDateTime(pdDesc) => pdOut = pdDesc
        /\ IsoNoSeconds(pdDesc) => pdOut = pdDesc \o ":00"

\* the expression parse_date resolves: its first argument after argument recovery
Expression ==
    recover_comma(recover_key_value(pdDesc, pdTime)[1], recover_key_value(pdDesc, pdTime)[2])[1]

\* the text matches no keyword, no absolute-date format and no weekday name
Unparseable(text) ==
    /\ \A kw \in {"tonight", "tomorrow", "weekend"} : ~Contains(Strip(Lower(text)), kw)
    /\ Strip(Lower(text)) # "today"
    /\ \A i \in 1..Len(date_formats) : ~strptime(Strip(text), date_formats[i]).ok
    /\ \A i \in 1..Len(day_names) : ~Contains(Lower(text), day_names[i])

\* C12: parse_date never raises: an expression matching no keyword, no
\* absolute-date format and no weekday name gives an error string carrying the
\* text and naming the accepted formats; every other input gives a string too
\* (a date, not an error).
C12_UnparseableIsErrorString ==
    pdOut # "" =>
        IF Unparseable(Expression)
          THEN /\ IsError(pdOut)
               /\ Contains(pdOut, "'" \o Expression \o "'")
               /\ Contains(pdOut, "Supported formats")
               /\ Contains(pdOut, "day names") /\ Contains(pdOut, "ISO dates")
          ELSE ~IsError(pdOut) /\ Len(pdOut) > 11 /\ Char(pdOut, 11) = "T"

\* C12 witness: an unparseable text has been answered by the error string
C12_Witness == pdDesc = "someday soon" /\ IsError(pdOut)

(***************************************************************************)
(* Claims about _parse_time (checked under SpecTime).                      *)
(***************************************************************************)
\* HH:MM:SS with two-digit fields, hour 0-23, minute 0-59, second 0-59
CanonicalTime(t) ==
    /\ Len(t) = 8
    /\ \A i \in {1, 2, 4, 5, 7, 8} : IsDigitChar(Char(t, i))
    /\ Char(t, 3) = ":" /\ Char(t, 6) = ":"
    /\ ToInt(SubSeq(t, 1, 2)) <= 23
    /\ ToInt(SubSeq(t, 4, 5)) <= 59
    /\ ToInt(SubSeq(t, 7, 8)) <= 59

\* C13: _parse_time is total and always yields a canonical time of day
\* HH:MM:SS, hour 0-23, minute 0-59, second 0-59; hours of 24 or more are
\* clamped to 23 in the am branch as in the other branches.
C13_AlwaysCanonical ==
    (tool = "_parse_time" /\ done) => CanonicalTime(ret)

\* the time h:m:00 as text
Clock(h, m) == Pad2(h) \o ":" \o Pad2(m) \o ":00"

\* the text _parse_time looks at: stripped, lower case
TimeText == Lower(Strip(args[1]))

\* C14: _parse_time applies its rules in order: noon, midnight, am/pm turned
\* into 24-hour form (pm and hour other than 12 adds 12, 12am becomes 0), H:M,
\* bare digits as an hour, and the default 09:00:00 for everything else.
C14_RulesInOrder ==
    (tool = "_parse_time" /\ done) =>
        /\ Contains(TimeText, "noon") => ret = "12:00:00"
        /\ (~Contains(TimeText, "noon") /\ Contains(TimeText, "midnight")) => ret = "00:00:00"
        /\ \A h \in 1..12, sp \in {"", " "} :
              /\ TimeText = IntToStr(h) \o sp \o "pm"
                    => ret = Clock(IF h = 12 THEN 12 ELSE h + 12, 0)
              /\ TimeText = IntToStr(h) \o sp \o "am"
                    => ret = Clock(IF h = 12 THEN 0 ELSE h, 0)
        /\ \A h \in 0..23, m \in 0..59 :
              TimeText \in {IntToStr(h) \o ":" \o IntToStr(m), IntToStr(h) \o ":" \o Pad2(m)}
                    => ret = Clock(h, m)
        /\ \A h \in 0..23 : TimeText = IntToStr(h) => ret = Clock(h, 0)
        /\ (/\ \A w \in {"noon", "midnight", "am", "pm", ":"} : ~Contains(TimeText, w)
            /\ ~IsDigit(TimeText)) => ret = DefaultTime
        /\ args[1] = "2pm" => ret = "14:00:00"
        /\ args[1] = "12pm" => ret = "12:00:00"
        /\ args[1] = "12am" => ret = "00:00:00"
        /\ args[1] = "noon" => ret = "12:00:00"
        /\ args[1] = "midnight" => ret = "00:00:00"
        /\ args[1] \in {"", "garbage"} => ret = "09:00:00"

\* C14 witness: "12pm" has been converted
C14_Witness == tool = "_parse_time" /\ done /\ args = <<"12pm">> /\ ret = "12:00:00"

(***************************************************************************)
(* Claims about the calendar, weather and webhook tools (checked under     *)
(* SpecTools and SpecSlots).                                               *)
(***************************************************************************)
\* the field names of a calendar tool, in the order of its parameters
FieldNames ==
    [check_availability |-> <<"user_id", "date_iso">>,
     find_available_times |-> <<"user_id", "start_date", "end_date", "duration_minutes">>,
     create_calendar_event |-> <<"user_id", "title", "start_iso", "end_iso", "description",
                                 "location">>]

CalendarTools == {"check_availability", "find_available_times", "create_calendar_event"}

\* the text s holds a pair name="value"
IsNamed(s, name) == SearchQuotedStar(s, name \o "=") > 0

\* the empty or default value of a field: the calendar's user, 60 minutes
FieldDefault(name) ==
    IF name = "user_id" THEN "me" ELSE IF name = "duration_minutes" THEN "60" ELSE ""

\* the value of the pair name="value" in s, the default when s names no such pair
Named(s, name) ==
    IF IsNamed(s, name) THEN QuotedStarGroup(s, name \o "=") ELSE FieldDefault(name)

\* a calendar tool was called with name="value" pairs for two or more of its
\* fields in the first field, and nothing (the default) in the other fields
KeyValueCall ==
    /\ tool \in CalendarTools
    /\ Cardinality({i \in 1..Len(FieldNames[tool]) : IsNamed(args[1], FieldNames[tool][i])}) >= 2
    /\ \A i \in 2..Len(args) : args[i] = "" \/ (tool = "find_available_times" /\ i = 4 /\ args[i] = "60")

\* C15: a calendar tool called with name="value" pairs for two or more of its
\* fields in the first field, the other fields empty, uses exactly the named
\* values, and the default for every field that is not named
C15_KeyValueFirst ==
    (done /\ KeyValueCall) =>
        fields = [i \in 1..Len(FieldNames[tool]) |-> Named(args[1], FieldNames[tool][i])]

\* the first field of create_calendar_event is a JSON object holding all six
\* arguments, and the other fields are empty
AllSixJson ==
    /\ tool = "create_calendar_event"
    /\ json_loads(args[1]).ok
    /\ \A i \in 1..6 : \E j \in 1..Len(json_loads(args[1]).pairs) :
          json_loads(args[1]).pairs[j][1] = FieldNames[tool][i]
    /\ \A i \in 2..6 : args[i] = ""

JsonValue(name) == params_get(json_loads(args[1]).pairs, name, "")

\* C16: create_calendar_event given a JSON object with all six arguments uses
\* exactly the values of the object, empty strings included, and hands exactly
\* those to create_event
C16_JsonExtractsAll ==
    (done /\ AllSixJson) =>
        /\ fields = [i \in 1..6 |-> JsonValue(FieldNames[tool][i])]
        /\ backend = <<[fn |-> "create_event",
                        args |-> [i \in 1..5 |-> JsonValue(FieldNames[tool][i + 1])]]>>

\* s without the whitespace and quote characters around it
Trimmed(s) == StripChars(s, WhiteSpace \cup QuoteChars)

\* check_availability was called with 'U, D' in the first field: a comma, no
\* '=', and an empty date_iso
CommaCall ==
    /\ tool = "check_availability"
    /\ Contains(args[1], ",") /\ ~Contains(args[1], "=") /\ args[2] = ""

\* C17: check_availability called with 'U, D' (a comma, no '=') and an empty
\* date_iso uses U as user_id and D as date_iso, split at the first comma and
\* without the whitespace and quotes around them; 'me, "2025-12-03T18:00:00"'
\* gives me and 2025-12-03T18:00:00
C17_CommaSplitsUserAndDate ==
    /\ (done /\ CommaCall) =>
          fields = <<Trimmed(SubSeq(args[1], 1, Find(args[1], ",") - 1)),
                     Trimmed(SubSeq(args[1], Find(args[1], ",") + 1, Len(args[1])))>>
    /\ (done /\ tool = "check_availability" /\ args = <<"me, \"2025-12-03T18:00:00\"", "">>)
          => fields = <<"me", "2025-12-03T18:00:00">>

C17_Witness ==
    /\ done /\ tool = "check_availability"
    /\ args = <<"me, \"2025-12-03T18:00:00\"", "">>
    /\ fields = <<"me", "2025-12-03T18:00:00">>
    /\ backend = <<[fn |-> "is_free", args |-> <<"2025-12-03T18:00:00">>]>>

\* C18: find_available_times whose start_date is empty after normalization
\* answers with an error that names start_date as required, and one that names
\* end_date when only end_date is empty; it does not raise and does not call
\* find_free_slots
C18_MissingDateIsNamed ==
    (done /\ tool = "find_available_times") =>
        /\ Strip(fields[2]) = "" =>
              /\ StartsAt(ret, 1, "Error: start_date is REQUIRED")
              /\ ~threw /\ backend = <<>>
        /\ (Strip(fields[2]) # "" /\ Strip(fields[3]) = "") =>
              /\ StartsAt(ret, 1, "Error: end_date is REQUIRED")
              /\ ~threw /\ backend = <<>>

\* both cases of C18 are met: a start_date that normalization leaves empty
\* although the raw first field is not, and an end_date alone empty
C18_Witness ==
    /\ done /\ tool = "find_available_times"
    /\ \/ args[1] = "user_id=\"me\", end_date=\"2025-12-03T12:00:00\"" /\ fields[2] = ""
       \/ args[2] = Morning /\ Strip(fields[3]) = "" /\ StartsAt(ret, 1, "Error: end_date")

\* the start and end of a slot or of an event, in minutes
From(p) == fromisoformat(p[1]).minutes
Until(p) == fromisoformat(p[2]).minutes

\* C19: every slot find_free_slots returns starts a whole number of hours
\* after range_start, lasts duration minutes, ends no later than range_end and
\* overlaps no busy interval; at most 10 slots are returned; with 09:00-10:00
\* busy, the range 09:00-12:00 and 60 minutes the result is without
\* 09:00-10:00 and holds 10:00-11:00 and 11:00-12:00
C19_SlotsAreFree ==
    (done /\ tool = "find_free_slots") =>
        /\ Len(ret) <= 10
        /\ \A i \in 1..Len(ret) :
              /\ From(ret[i]) >= fromisoformat(args[1]).minutes
              /\ (From(ret[i]) - fromisoformat(args[1]).minutes) % 60 = 0
              /\ Until(ret[i]) = From(ret[i]) + args[3]
              /\ Until(ret[i]) <= fromisoformat(args[2]).minutes
              /\ \A j \in 1..Len(calendar.events) :
                    \/ Until(ret[i]) <= From(calendar.events[j])
                    \/ From(ret[i]) >= Until(calendar.events[j])
        /\ (/\ args = <<Morning, Midday, 60>>
            /\ calendar.events = <<<<Morning, "2025-12-03T10:00:00">>>>)
              => /\ \A i \in 1..Len(ret) : ret[i] # <<Morning, "2025-12-03T10:00:00">>
                 /\ \E i \in 1..Len(ret) : ret[i] = <<"2025-12-03T10:00:00", "2025-12-03T11:00:00">>
                 /\ \E i \in 1..Len(ret) : ret[i] = <<"2025-12-03T11:00:00", Midday>>

\* the message of the exception the backing call of the tool raised
Underlying ==
    IF tool \in CalendarTools /\ ~calendar.google THEN JSONDecodeError ELSE fault

\* the tool has called its backing capability and that call failed: the
\* webhook or the weather service answered with an error status, the Google
\* Calendar service raised, or the JSON store of the calendar is corrupt
CapabilityFailed ==
    /\ done /\ Failing /\ backend # <<>>
    /\ tool = "check_availability" => (calendar.google => fromisoformat(fields[2]).ok)
    /\ tool = "find_available_times" =>
          calendar.google /\ fromisoformat(fields[2]).ok /\ fromisoformat(fields[3]).ok
    /\ tool = "create_calendar_event" =>
          calendar.google /\ fromisoformat(fields[3]).ok /\ fromisoformat(fields[4]).ok

\* C20: when the backing call of a tool fails the tool does not raise, and it
\* returns an error string that holds the underlying message
C20_FailureIsErrorString ==
    CapabilityFailed => (~threw /\ Contains(ret, "Error") /\ Contains(ret, Underlying))

\* C21: without Google Calendar create_event records the event in the local
\* store and returns 'local_event', so create_calendar_event answers with a
\* confirmation that holds the event identifier
C21_LocalCreateConfirms ==
    (done /\ tool = "create_calendar_event" /\ ~calendar.google) =>
        /\ ~threw
        /\ StartsAt(ret, 1, "Event '")
        /\ Contains(ret, "Event ID: local_event")

(***************************************************************************)
(* Claims about run_task (checked under SpecTurn and SpecRun).             *)
(***************************************************************************)
\* C22: run_task returns a pair (output, tool calls) on every path, also when
\* the agent loop ends in a timeout, in the iteration limit or in another
\* exception
C22_AlwaysPair == lastResult \in {"none", "tuple"}

\* C28: the history build_agent puts in the prompt is a suffix of the memory's
\* messages and is never longer than the window size the memory was made with
C28_HistoryWithinWindow ==
    turns > 0 =>
        /\ Len(history) <= winSize
        /\ \E k \in 0..Len(mem) :
              /\ k + Len(history) <= Len(mem)
              /\ history = SubSeq(mem, k + 1, k + Len(history))

\* C29: every run_task call made with a memory adds to it exactly one user
\* message followed by exactly one assistant message, whether the agent loop
\* succeeds or fails
C29_OneExchangePerTurn ==
    [][turns' = turns + 1 =>
          /\ Len(mem') = Len(mem) + 2
          /\ SubSeq(mem', 1, Len(mem)) = mem
          /\ mem'[Len(mem) + 1].role = "user"
          /\ mem'[Len(mem) + 2].role = "assistant"]_vars

(***************************************************************************)
(* Claims about the keyword branches of parse_date (checked under          *)
(* SpecDate).                                                              *)
(***************************************************************************)
\* the expression in lower case, as parse_date classifies it
ExpressionLower == Strip(Lower(Expression))

\* a date has been returned for an expression that contains "tonight"
TonightResolved ==
    /\ pdOut # "" /\ ~IsError(pdOut)
    /\ Contains(ExpressionLower, "tonight")

\* C23 as stated: an expression containing 'tonight' resolves to the date of
\* now plus one day, the date 'tomorrow' resolves to
C23_TonightIsTomorrow ==
    TonightResolved => SubSeq(pdOut, 1, 10) = strftime_date(today + 1)

\* C23 amended: an expression containing 'tonight' resolves to the date of
\* now, the date 'today' resolves to, one day before that of 'tomorrow'
C23_TonightIsToday ==
    TonightResolved =>
        /\ SubSeq(pdOut, 1, 10) = strftime_date(today)
        /\ SubSeq(pdOut, 1, 10) = SubSeq(parse_date("today", pdTime, today), 1, 10)
        /\ ResultDay(pdOut) + 1 = ResultDay(parse_date("tomorrow", pdTime, today))

\* C23 witness: "tonight at 7pm" has been resolved to today's date, at 19:00
C23_Witness ==
    /\ pdDesc = "tonight at 7pm" /\ TonightResolved
    /\ pdOut = strftime_date(today) \o "T19:00:00"

\* the expression is classified as ThisWeekend: it holds "weekend" and none of
\* the keywords tried before it
IsThisWeekend ==
    /\ Contains(ExpressionLower, "weekend")
    /\ ~Contains(ExpressionLower, "tonight")
    /\ ~Contains(ExpressionLower, "tomorrow")
    /\ ExpressionLower # "today"

\* the rule of C25 for the Saturday a weekend expression means
SaturdayRule ==
    /\ weekday(ResultDay(pdOut)) = 5
    /\ ResultDay(pdOut) - today \in 0..7
    /\ IF weekday(today) = 5 /\ ~Contains(ExpressionLower, "this")
         THEN ResultDay(pdOut) = today + 7
         ELSE /\ ResultDay(pdOut) >= today
              /\ \A d \in today..(ResultDay(pdOut) - 1) : weekday(d) # 5

\* C25 as stated: every expression containing 'weekend' resolves to a
\* Saturday, the nearest on or after today, or the one 7 days later when today
\* is Saturday and the text does not say 'this'
C25_WeekendIsSaturday ==
    (pdOut # "" /\ Contains(ExpressionLower, "weekend")) =>
        (~IsError(pdOut) /\ SaturdayRule)

\* C25 amended: the same for every expression classified as ThisWeekend, that
\* is containing 'weekend' and neither 'tonight' nor 'tomorrow'
C25_ThisWeekendIsSaturday ==
    (pdOut # "" /\ IsThisWeekend) => (~IsError(pdOut) /\ SaturdayRule)

\* C25 witness: "weekend" asked on a Saturday has been resolved to the
\* Saturday after, and "this weekend" to the same day
C25_Witness ==
    /\ pdOut # "" /\ weekday(today) = 5
    /\ \/ pdDesc = "weekend" /\ ResultDay(pdOut) = today + 7
       \/ pdDesc = "this weekend" /\ ResultDay(pdOut) = today

\* one expression alone in the first argument: nothing for the recovery to split
PlainExpression == ~Contains(pdDesc, "\"") /\ ~Contains(pdDesc, "=")

\* the lower-cased text the branches look at, for a plain expression
PlainLower == Strip(Lower(pdDesc))

\* classified as Tomorrow, Tonight, ThisWeekend or NamedWeekday
TakesAtTime ==
    \/ Contains(PlainLower, "tonight")
    \/ PlainLower # "today" /\ Contains(PlainLower, "tomorrow")
    \/ PlainLower # "today" /\ Contains(PlainLower, "weekend")
    \/ /\ PlainLower # "today"
       /\ first_format(Strip(pdDesc)) = 0
       /\ \E d \in 1..Len(day_names) : Contains(PlainLower, day_names[d])

\* the default time as the result carries it when no 'at' overrides it
KeptDefault ==
    LET given == IF Strip(pdTime) = "" THEN DefaultTime ELSE pdTime
    IN  IF Contains(PlainLower, "tonight") /\ given = DefaultTime
          THEN "18:00:00" ELSE with_seconds(Strip(given))

\* the time-of-day part of a result
TimeOfResult == SubSeq(pdOut, 12, Len(pdOut))

\* C24: for an expression classified as Tomorrow, Tonight, ThisWeekend or
\* NamedWeekday, a standalone 'at' makes the time of the result _parse_time of
\* the text after it, and without a standalone 'at' the default time is kept
C24_AtOverridesDefault ==
    (pdOut # "" /\ ~IsError(pdOut) /\ PlainExpression /\ TakesAtTime) =>
        IF SearchAt(PlainLower) > 0
          THEN TimeOfResult = _parse_time(AfterAt(PlainLower))
          ELSE TimeOfResult = KeptDefault

\* the expressions and times sent in one argument
RecoveredDescs ==
    {"Friday", "this Friday", "someday", "this weekend", "tonight", "tomorrow",
     "Friday at 2pm"}
RecoveredTimes == {"18:00:00", "18:00", "10:00", "19:00:00"}

\* '"X", "T"'
CommaForm(X, T) == "\"" \o X \o "\", \"" \o T \o "\""

\* 'date_description="X", default_time="T"'
KeyValueForm(X, T) == "date_description=\"" \o X \o "\", default_time=\"" \o T \o "\""

\* C26: with X and T both in the first argument, in the comma form or in the
\* key=value form, and default_time left at its default, parse_date returns
\* what parse_date(X, T) returns
C26_RecoveryEquivalent ==
    \A X \in RecoveredDescs, T \in RecoveredTimes :
        (/\ pdOut # "" /\ pdTime = DefaultTime
         /\ pdDesc \in {CommaForm(X, T), KeyValueForm(X, T)})
            => pdOut = parse_date(X, T, today)

(***************************************************************************)
(* Claims about create_calendar_event's required fields (SpecTools).       *)
(***************************************************************************)
\* the required parameters of create_calendar_event, by their place in fields
RequiredOfCreate == [i \in 2..4 |-> <<"user", "title", "start_iso", "end_iso">>[i]]

\* C27: create_calendar_event with an empty title, start_iso or end_iso after
\* normalization returns an error naming the missing field and never calls
\* the backend's create_event
C27_RequiredFieldsChecked ==
    (/\ done /\ tool = "create_calendar_event"
     /\ \E i \in DOMAIN RequiredOfCreate : fields[i] = "")
        => /\ backend = <<>>
           /\ ~threw /\ Contains(ret, "Error")
           /\ \E i \in DOMAIN RequiredOfCreate :
                  fields[i] = "" /\ Contains(ret, RequiredOfCreate[i])

(***************************************************************************)
(* Claims about the persisted timestamps (Spec).                           *)
(***************************************************************************)
\* the timestamps the file holds for the message of this content
StampsOf(f, c) == {f[i].timestamp : i \in {j \in 1..Len(f) : f[j].content = c}}

\* C30: a save_memory call leaves the persisted timestamp of every message
\* that was already in the file and is still in memory as it was
C30_TimestampFixed ==
    [][(lastOp'.op = "save_memory" /\ ~lastOp'.raised /\ now' = now + 1) =>
          \A k \in 1..Len(mem) :
              StampsOf(file, mem[k].content) # {} =>
                  StampsOf(file', mem[k].content) = StampsOf(file, mem[k].content)]_vars
====
